---- MODULE Spec2Model ----
(***************************************************************************)
(* Verification model of the Sudoku artifact pipeline:                     *)
(*   - the orchestrator's run_pipeline (src/orchestrator/orchestrator.py), *)
(*     with the artifact store, the validation center and the export gate; *)
(*   - the shadow-compare runtime run_with_shadow / run_shadow_check       *)
(*     (src/orchestrator/shadow_compare.py) and the sampling primitive;    *)
(*   - the payload classifier classify_mismatch as a pure function;        *)
(*   - the shadow event log (src/orchestrator/log.py) under threads;       *)
(*   - the artifact store's save_artifact and compute_artifact_id on       *)
(*     Python mappings (src/artifacts/artifact_store.py);                  *)
(*   - the validation center's assert_valid (src/contracts/validator.py).  *)
(*                                                                         *)
(* Hashes (sha256, uuid5) are modelled as injective tagged tuples of the   *)
(* hashed material: equal material gives equal digests, different material *)
(* different digests.                                                      *)
(***************************************************************************)
EXTENDS Integers, Sequences, FiniteSets, TLC

VARIABLES
    \* ---- run_pipeline (two invocations sharing one artifact directory)
    env,        \* configuration shared by the invocations (environment, TOML)
    inp,        \* inp[r]: root_seed and validation profile of invocation r
    pc,         \* pc[r]: position of invocation r in run_pipeline
    art,        \* art[r]: the in-memory artifacts / ids built so far (results)
    store,      \* the artifact directory: the set of stored artifacts
    hist,       \* hist[r]: the externally visible steps performed, in order
    shadowOut,  \* shadowOut[r]: results["shadow"] plus what the runtime returned
    err,        \* err[r]: the exception that ended invocation r, if any
    removals,   \* number of artifact files removed by another process
    \* ---- run_with_shadow (one invocation on an arbitrary task)
    task,       \* the ShadowTask
    spc,        \* position inside run_with_shadow
    calls,      \* runner invocations, in order
    res,        \* the ShadowResult returned
    logLines,   \* the lines appended to the event log
    \* ---- classify_mismatch (pure function applied to a pair of runs)
    pair,       \* <<baseline, candidate>> ShadowRun values
    verdictOut, \* the classification computed for pair
    \* ---- orchestrator/log.py (threads of one process calling append_event)
    logClock,   \* the UTC date, as a day number
    logDirs,    \* the date directories that exist under _LOG_DIR
    logFiles,   \* path |-> the chunks written to that file, in order
    currentPath,\* the module global _CURRENT_PATH
    lock,       \* the holder of _LOCK (0: free)
    lpc,        \* lpc[t]: position of thread t inside append_event
    lline,      \* lline[t]: the line thread t has serialised
    lpath,      \* lpath[t]: the local variable path of thread t
    lseq,       \* lseq[t]: the number of append_event calls t has completed
    writes,     \* history: one record per line handed to handle.write
    \* ---- artifacts/artifact_store.py (a caller saving mappings)
    artFiles,   \* the artifact directory: <<Type, id>> |-> bytes of the file
    held,       \* the mapping the caller holds, and the id its last save gave
    saveResult, \* outcome of the last save_artifact call, with its inputs
    saves,      \* number of save_artifact calls made
    \* ---- compute_artifact_id (pure function applied to two mappings)
    canonPair,  \* <<a, b>>: two mappings of equal content
    canonOut,   \* the identifiers computed for canonPair
    \* ---- contracts/validator.py (assert_valid applied to one artifact)
    valIn,      \* the artifact, expect_type, profile and store of the call
    valOut,     \* the report computed and whether the call raised
    \* ---- pure functions applied to one input each
    rtIn,       \* router.resolve: TOML policy, environment, profile, directories
    rtOut,      \* the ResolvedModule returned, or the error raised
    polIn,      \* _compute_shadow_settings: TOML, environment and profile
    polOut,     \* the effective shadow policy
    hitIn,      \* sampling.hit: the arguments and the digest's first 8 bytes
    hitOut      \* the decisions of two calls on hitIn

pipeVars == <<env, inp, pc, art, store, hist, shadowOut, err, removals>>
shVars   == <<task, spc, calls, res, logLines>>
clVars   == <<pair, verdictOut>>
logVars  == <<logClock, logDirs, logFiles, currentPath, lock, lpc, lline,
              lpath, lseq, writes>>
stVars   == <<artFiles, held, saveResult, saves>>
cnVars   == <<canonPair, canonOut>>
vaVars   == <<valIn, valOut>>
fnVars   == <<rtIn, rtOut, polIn, polOut, hitIn, hitOut>>
libVars  == <<logVars, stVars, cnVars, vaVars, fnVars>>
vars     == <<env, inp, pc, art, store, hist, shadowOut, err, removals,
              task, spc, calls, res, logLines, pair, verdictOut, libVars>>

(***************************************************************************)
(* Bounds of the model                                                     *)
(***************************************************************************)
\* artifact files another process may remove from the shared directory
MaxRemovals == 1
\* sample rates are the fractions 0/RateDen .. RateDen/RateDen
RateDen == 4
\* the sampler's u64 is drawn from 0 .. U64Space-1 (stands for 2^64)
U64Space == 8
\* threads of the logging process, and append_event calls of the process
NumThreads == 2
MaxAppends == 3
\* the configured max_bytes of a log file, and the longest serialised line
MaxBytes == 4
MaxLineLen == 2
\* the UTC dates the clock passes through
MaxDays == 2
\* save_artifact calls made by the caller of the artifact store
MaxSaves == 3

(***************************************************************************)
(* Program constants                                                       *)
(***************************************************************************)
LimitNodes   == 200000
LimitBtDepth == 60
LimitTimeMs  == 2000

\* Python None / a key that is missing from a mapping
Null   == "null"
Absent == "absent"
NoId   == <<>>

\* dict.get(key): a missing key reads as None
Get(v) == IF v = Absent THEN Null ELSE v

(***************************************************************************)
(* sampling.hit                                                            *)
(***************************************************************************)
SampleHitAlways(rate, u64) == TRUE

SampleHit(rate, u64) ==
    IF rate <= 0 THEN FALSE
    ELSE IF rate >= RateDen THEN TRUE
    ELSE u64 < ((rate * U64Space) \div RateDen)

(***************************************************************************)
(* shadow_compare: taxonomy, guardrail, classifier                         *)
(***************************************************************************)
Taxonomy ==
    [C1 |-> "CRITICAL", C2 |-> "CRITICAL", C3 |-> "MAJOR",
     C4 |-> "MAJOR", C5 |-> "MINOR", C6 |-> "MINOR"]

\* _collect_guardrail_metrics: the baseline's self-reported numbers; a
\* missing or zero time_ms falls back to the duration the runtime measured
CollectGuardrailMetrics(run, measuredMs) ==
    [nodes    |-> run.payload.nodes,
     bt_depth |-> run.payload.bt_depth,
     time_ms  |-> IF run.payload.time_ms # 0 THEN run.payload.time_ms ELSE measuredMs]

\* _evaluate_guardrails: the set of breached dimensions ({} = None)
EvaluateGuardrailsOff(metrics) == {}

EvaluateGuardrails(metrics) ==
    {n \in {"nodes", "bt_depth", "time_ms"} :
        \/ n = "nodes"    /\ metrics.nodes > LimitNodes
        \/ n = "bt_depth" /\ metrics.bt_depth > LimitBtDepth
        \/ n = "time_ms"  /\ metrics.time_ms > LimitTimeMs}

\* the payload without its "trace" key (base_core / cand_core)
Core(p) == [p EXCEPT !.trace = Absent]

\* classify_mismatch with the C3 and C5 tests in the wrong order
ClassifyMismatchSwapped(baseline, candidate) ==
    LET b == baseline.payload
        c == candidate.payload
    IN  IF baseline.verdict # candidate.verdict THEN "C1"
        ELSE IF b.isMapping /\ c.isMapping THEN
            IF b = c THEN "none"
            ELSE IF Get(b.unique) # Get(c.unique) THEN "C1"
            ELSE IF Get(b.grid) # Get(c.grid) THEN "C2"
            ELSE IF Get(b.candidates) # Get(c.candidates) THEN "C5"
            ELSE IF Get(b.trace) # Get(c.trace) THEN "C3"
            ELSE IF Core(b) # Core(c) THEN "C6"
            ELSE "none"
        ELSE IF b = c THEN "none" ELSE "C6"

\* classify_mismatch: the taxonomy code, or "none" for None
ClassifyMismatch(baseline, candidate) ==
    LET b == baseline.payload
        c == candidate.payload
    IN  IF baseline.verdict # candidate.verdict THEN "C1"
        ELSE IF b.isMapping /\ c.isMapping THEN
            IF b = c THEN "none"
            ELSE IF Get(b.unique) # Get(c.unique) THEN "C1"
            ELSE IF Get(b.grid) # Get(c.grid) THEN "C2"
            ELSE IF Get(b.trace) # Get(c.trace) THEN "C3"
            ELSE IF Get(b.candidates) # Get(c.candidates) THEN "C5"
            ELSE IF Core(b) # Core(c) THEN "C6"
            ELSE "none"
        ELSE IF b = c THEN "none" ELSE "C6"

(***************************************************************************)
(* run_with_shadow, as pure functions of the task                          *)
(***************************************************************************)
\* limit_hit: "+".join(sorted(set(breaches))), kept as the sorted sequence
LimitHit(breaches) ==
    SelectSeq(<<"bt_depth", "nodes", "time_ms">>, LAMBDA n : n \in breaches)

\* task.classifier or classify_mismatch
Classifier(t, baseline, candidate) ==
    IF t.classifier = "default" THEN ClassifyMismatch(baseline, candidate)
    ELSE t.classifier

\* shadow_compare.py:641-665 with the payload classifier consulted first
OutcomeOfPayloadFirst(t, baseline, candidate) ==
    LET breaches == EvaluateGuardrails(CollectGuardrailMetrics(baseline, t.measuredMs))
        code     == Classifier(t, baseline, candidate)
    IN  IF code # "none" THEN
            [code |-> code, severity |-> Taxonomy[code],
             verdict_status |-> "mismatch", limit_hit |-> <<>>]
        ELSE IF breaches # {} THEN
            [code |-> "C4", severity |-> Taxonomy["C4"],
             verdict_status |-> "budget_exhausted", limit_hit |-> LimitHit(breaches)]
        ELSE
            [code |-> "none", severity |-> "NONE",
             verdict_status |-> "match", limit_hit |-> <<>>]

\* shadow_compare.py:632-665: guardrail first, payload classifier otherwise
OutcomeOf(t, baseline, candidate) ==
    LET breaches == EvaluateGuardrails(CollectGuardrailMetrics(baseline, t.measuredMs))
    IN  IF breaches # {} THEN
            [code |-> "C4", severity |-> Taxonomy["C4"],
             verdict_status |-> "budget_exhausted", limit_hit |-> LimitHit(breaches)]
        ELSE
            LET code == Classifier(t, baseline, candidate)
            IN  IF code # "none" THEN
                    [code |-> code, severity |-> Taxonomy[code],
                     verdict_status |-> "mismatch", limit_hit |-> <<>>]
                ELSE
                    [code |-> "none", severity |-> "NONE",
                     verdict_status |-> "match", limit_hit |-> <<>>]

\* shadow_compare.py:691-695 without the test of allow_fallback
FallbackDecisionAlways(t, severity) ==
    IF t.guardrail # "none" THEN t.guardrail = "returns_true"
    ELSE severity = "CRITICAL"

\* shadow_compare.py:691-695: the caller's guardrail callback, when given,
\* decides; otherwise CRITICAL and allow_fallback
FallbackDecision(t, severity) ==
    IF t.guardrail # "none" THEN t.guardrail = "returns_true"
    ELSE severity = "CRITICAL" /\ t.allow_fallback

NoShadowResult ==
    [sampled |-> FALSE, severity |-> "NONE", kind |-> "none", code |-> "none",
     returned |-> "nothing", fallback_used |-> FALSE, event |-> "nothing",
     verdict_status |-> "nothing", limit_hit |-> <<>>, logged |-> FALSE]

\* shadow_compare.py:570-618: the result of an unsampled invocation
SkippedResult ==
    [sampled |-> FALSE, severity |-> "NONE", kind |-> "none", code |-> "none",
     returned |-> "candidate", fallback_used |-> FALSE,
     event |-> "shadow_compare.skipped",
     verdict_status |-> "nothing", limit_hit |-> <<>>, logged |-> FALSE]

\* shadow_compare.py:687-689 without the tests: every sampled run is logged
ShouldLogAlways(t, code) == TRUE

\* shadow_compare.py:687-689: taxonomy_entry is not None and task.log_mismatch
ShouldLog(t, code) == code # "none" /\ t.log_mismatch

\* shadow_compare.py:620-713: the result of a sampled invocation
SampledResult(t, baseline, candidate) ==
    LET o        == OutcomeOf(t, baseline, candidate)
        fallback == FallbackDecision(t, o.severity)
    IN  [sampled |-> TRUE, severity |-> o.severity, kind |-> o.code, code |-> o.code,
         returned |-> IF fallback THEN "baseline" ELSE "candidate",
         fallback_used |-> fallback,
         event |-> IF o.code = "none" THEN "sudoku.shadow_sample.v1"
                   ELSE "sudoku.shadow_mismatch.v1",
         verdict_status |-> o.verdict_status, limit_hit |-> o.limit_hit,
         logged |-> ShouldLog(t, o.code)]

(***************************************************************************)
(* Payloads and runs the three specifications draw their inputs from       *)
(***************************************************************************)
\* a solver payload that is a mapping; "other" stands for its remaining keys
BasePayload ==
    [isMapping |-> TRUE, unique |-> "true", grid |-> "g1", trace |-> "t1",
     candidates |-> "c1", other |-> "m1", nodes |-> 0, bt_depth |-> 0, time_ms |-> 5]

\* a result_artifact that is not a mapping (it reports no metrics)
ScalarPayload(v) ==
    [isMapping |-> FALSE, unique |-> Absent, grid |-> Absent, trace |-> Absent,
     candidates |-> Absent, other |-> v, nodes |-> 0, bt_depth |-> 0, time_ms |-> 0]

\* _verdict_from_payload
VerdictFromPayload(p) ==
    IF p.unique = "true" THEN "ok"
    ELSE IF p.unique = "false" THEN "unsolved"
    ELSE "unknown"

MkRun(p) == [verdict |-> VerdictFromPayload(p), payload |-> p]

\* the content differences the classifier distinguishes, one at a time
ContentVariants ==
    { BasePayload,
      [BasePayload EXCEPT !.unique = "false"],
      [BasePayload EXCEPT !.grid = "g2"],
      [BasePayload EXCEPT !.trace = "t2"],
      [BasePayload EXCEPT !.candidates = "c2"],
      [BasePayload EXCEPT !.other = "m2"] }

\* self-reported metrics at, and one above, each guardrail limit; a zero
\* time_ms leaves the decision to the measured duration
MetricVariants ==
    { [nodes |-> 0, bt_depth |-> 0, time_ms |-> 5],
      [nodes |-> LimitNodes, bt_depth |-> LimitBtDepth, time_ms |-> LimitTimeMs],
      [nodes |-> LimitNodes + 1, bt_depth |-> 0, time_ms |-> 5],
      [nodes |-> 0, bt_depth |-> LimitBtDepth + 1, time_ms |-> 5],
      [nodes |-> 0, bt_depth |-> 0, time_ms |-> LimitTimeMs + 1],
      [nodes |-> LimitNodes + 1, bt_depth |-> LimitBtDepth + 1, time_ms |-> LimitTimeMs + 1],
      [nodes |-> 0, bt_depth |-> 0, time_ms |-> 0] }

WithMetrics(p, m) ==
    [p EXCEPT !.nodes = m.nodes, !.bt_depth = m.bt_depth, !.time_ms = m.time_ms]

BaselineRuns ==
    { MkRun(WithMetrics(p, m)) : p \in ContentVariants, m \in MetricVariants }

CandidateRuns ==
    { MkRun(BasePayload), MkRun([BasePayload EXCEPT !.unique = "false"]) }

\* what the baseline runner does when called: return a run, or raise
BaselineBehaviours ==
    { [raises |-> FALSE, run |-> b] : b \in BaselineRuns }
        \cup { [raises |-> TRUE, run |-> MkRun(BasePayload)] }

ShadowTasks ==
    { [sample_rate |-> sr[1], u64 |-> sr[2],
       guardrail |-> g, allow_fallback |-> af, log_mismatch |-> lm,
       classifier |-> cl, candidate |-> c, baseline |-> b, measuredMs |-> ms] :
        sr \in { <<0, 0>>, <<RateDen \div 2, 0>>,
                 <<RateDen \div 2, U64Space - 1>>, <<RateDen, U64Space - 1>> },
        g \in {"none", "returns_true", "returns_false"},
        af \in BOOLEAN, lm \in BOOLEAN,
        cl \in {"default", "C1"},
        c \in CandidateRuns, b \in BaselineBehaviours,
        ms \in {1, LimitTimeMs + 1} }

\* the values the variables of a subsystem hold while another one is checked
PipeIdle ==
    /\ env = "idle" /\ inp = "idle" /\ pc = "idle" /\ art = "idle"
    /\ store = {} /\ hist = "idle" /\ shadowOut = "idle" /\ err = "idle"
    /\ removals = 0
ShadowIdle ==
    /\ task = "idle" /\ spc = "idle" /\ calls = <<>>
    /\ res = NoShadowResult /\ logLines = <<>>
ClassifyIdle ==
    /\ pair = "idle" /\ verdictOut = "idle"
LogIdle ==
    /\ logClock = 0 /\ logDirs = {} /\ logFiles = "idle"
    /\ currentPath = "idle" /\ lock = 0 /\ lpc = "idle" /\ lline = "idle"
    /\ lpath = "idle" /\ lseq = "idle" /\ writes = <<>>
StoreIdle ==
    /\ artFiles = "idle" /\ held = "idle" /\ saveResult = "idle" /\ saves = 0
CanonIdle ==
    /\ canonPair = "idle" /\ canonOut = "idle"
ValidatorIdle ==
    /\ valIn = "idle" /\ valOut = "idle"
FnIdle ==
    /\ rtIn = "idle" /\ rtOut = "idle" /\ polIn = "idle" /\ polOut = "idle"
    /\ hitIn = "idle" /\ hitOut = "idle"
LibIdle ==
    /\ LogIdle /\ StoreIdle /\ CanonIdle /\ ValidatorIdle /\ FnIdle

(***************************************************************************)
(* ShadowSpec: one invocation of run_with_shadow, step by step             *)
(***************************************************************************)
ShadowInit ==
    /\ task \in { t \in ShadowTasks :
                    \* the measured duration is only read for a zero time_ms
                    t.measuredMs = 1 \/ t.baseline.run.payload.time_ms = 0 }
    /\ spc = "start"
    /\ calls = <<>>
    /\ res = NoShadowResult
    /\ logLines = <<>>
    /\ PipeIdle /\ ClassifyIdle /\ LibIdle

Sampled(t) == SampleHit(t.sample_rate, t.u64)

\* shadow_compare.py:546: the candidate runner is executed first
RunCandidate ==
    /\ spc = "start"
    /\ calls' = Append(calls, "candidate")
    /\ spc' = "candidate_done"
    /\ UNCHANGED <<task, res, logLines>>
    /\ UNCHANGED pipeVars /\ UNCHANGED clVars /\ UNCHANGED libVars

\* shadow_compare.py:562-618: not sampled, the candidate is returned
ReturnSkipped ==
    /\ spc = "candidate_done"
    /\ ~Sampled(task)
    /\ res' = SkippedResult
    /\ spc' = "returned"
    /\ UNCHANGED <<task, calls, logLines>>
    /\ UNCHANGED pipeVars /\ UNCHANGED clVars /\ UNCHANGED libVars

\* RunBaseline without the test of the sampling decision
RunBaselineUnconditional ==
    /\ spc = "candidate_done"
    /\ calls' = Append(calls, "baseline")
    /\ spc' = IF task.baseline.raises THEN "raised" ELSE "baseline_done"
    /\ UNCHANGED <<task, res, logLines>>
    /\ UNCHANGED pipeVars /\ UNCHANGED clVars /\ UNCHANGED libVars

\* shadow_compare.py:620: sampled, the baseline runner is executed; an
\* exception it raises leaves run_with_shadow (_execute_runner has no handler)
RunBaseline ==
    /\ spc = "candidate_done"
    /\ Sampled(task)
    /\ calls' = Append(calls, "baseline")
    /\ spc' = IF task.baseline.raises THEN "raised" ELSE "baseline_done"
    /\ UNCHANGED <<task, res, logLines>>
    /\ UNCHANGED pipeVars /\ UNCHANGED clVars /\ UNCHANGED libVars

\* shadow_compare.py:632-713: guardrail, classification, event, log, fallback
CompareAndReturn ==
    /\ spc = "baseline_done"
    /\ LET r == SampledResult(task, task.baseline.run, task.candidate)
       IN  /\ res' = r
           /\ logLines' = IF r.logged
                          THEN Append(logLines, [type |-> r.event, code |-> r.code])
                          ELSE logLines
    /\ spc' = "returned"
    /\ UNCHANGED <<task, calls>>
    /\ UNCHANGED pipeVars /\ UNCHANGED clVars /\ UNCHANGED libVars

ShadowNext ==
    \/ RunCandidate
    \/ ReturnSkipped
    \/ RunBaseline
    \/ CompareAndReturn

ShadowSpec == ShadowInit /\ [][ShadowNext]_vars

(***************************************************************************)
(* Properties of run_with_shadow (checked under ShadowSpec)                *)
(***************************************************************************)
ShadowEnded == spc \in {"returned", "raised"}

\* C6: in every invocation of run_with_shadow the candidate runner is
\* executed first and exactly once; the baseline runner is executed (once,
\* after the candidate) if and only if the sampling decision is a hit; when
\* sampling does not hit, the baseline is never executed, the event is
\* shadow_compare.skipped with severity NONE and the candidate is returned.
C6_CandidateFirstBaselineIffSampled ==
    /\ calls \in {<<>>, <<"candidate">>, <<"candidate", "baseline">>}
    /\ (spc # "start" => Len(calls) >= 1)
    /\ (Len(calls) = 2 => Sampled(task))
    /\ (ShadowEnded => (Len(calls) = 2 <=> Sampled(task)))
    /\ (ShadowEnded /\ ~Sampled(task) =>
            /\ spc = "returned"
            /\ calls = <<"candidate">>
            /\ res.event = "shadow_compare.skipped"
            /\ res.severity = "NONE"
            /\ res.returned = "candidate"
            /\ ~res.sampled)

\* an unsampled invocation at a fractional rate has returned
C6_Witness ==
    /\ spc = "returned"
    /\ task.sample_rate > 0
    /\ ~Sampled(task)
    /\ calls = <<"candidate">>
    /\ res.event = "shadow_compare.skipped"

BaselineBreaches(t) ==
    EvaluateGuardrails(CollectGuardrailMetrics(t.baseline.run, t.measuredMs))

\* C7: for any sampled (baseline, candidate) pair exactly one outcome is
\* produced (match, or exactly one taxonomy code), and whenever the
\* baseline's metrics breach a guardrail the outcome is C4 / MAJOR with
\* verdict_status budget_exhausted whatever the payload differences are.
C7_OneOutcomeGuardrailSupersedes ==
    spc = "returned" /\ res.sampled =>
        /\ res.code \in {"none", "C1", "C2", "C3", "C4", "C5", "C6"}
        /\ res.kind = res.code
        /\ (res.code = "none" <=> res.verdict_status = "match")
        /\ (res.code = "none" <=> res.severity = "NONE")
        /\ (res.code # "none" => res.severity = Taxonomy[res.code])
        /\ (BaselineBreaches(task) # {} =>
                /\ res.code = "C4"
                /\ res.severity = "MAJOR"
                /\ res.verdict_status = "budget_exhausted")
        /\ (res.verdict_status = "budget_exhausted" => BaselineBreaches(task) # {})

\* a guardrail breach on a pair the payload classifier would call C1
C7_Witness ==
    /\ spc = "returned"
    /\ res.sampled
    /\ BaselineBreaches(task) # {}
    /\ task.classifier = "default"
    /\ ClassifyMismatch(task.baseline.run, task.candidate) = "C1"
    /\ res.code = "C4"

\* C9: with no caller-supplied guardrail callback run_with_shadow returns
\* the baseline's result if and only if the run was sampled, the severity is
\* CRITICAL and allow_fallback is true, and the candidate's result in every
\* other case; fallback_used is true exactly when the baseline's result is
\* the one returned; with a callback, its return value alone decides (the
\* callback is consulted in sampled invocations only).
C9_FallbackDecision ==
    spc = "returned" =>
        /\ res.returned \in {"baseline", "candidate"}
        /\ res.sampled = Sampled(task)
        /\ (res.fallback_used <=> res.returned = "baseline")
        /\ (task.guardrail = "none" =>
                (res.returned = "baseline" <=>
                    res.sampled /\ res.severity = "CRITICAL" /\ task.allow_fallback))
        /\ (task.guardrail # "none" /\ res.sampled =>
                (res.returned = "baseline" <=> task.guardrail = "returns_true"))
        /\ (~res.sampled => res.returned = "candidate")

\* the baseline has been returned on a CRITICAL outcome, without a callback
C9_Witness ==
    /\ spc = "returned"
    /\ task.guardrail = "none"
    /\ res.severity = "CRITICAL"
    /\ task.allow_fallback
    /\ res.returned = "baseline"
    /\ res.fallback_used

\* C11 (as stated): when the baseline run breaches a guardrail threshold on
\* nodes, depth or time, the in-flight call is not aborted and the
\* baseline's result is the one the shadow runtime returns.
C11_AsStated ==
    spc = "returned" /\ res.sampled /\ BaselineBreaches(task) # {}
        => res.returned = "baseline"

\* a guardrail breach (C4, MAJOR) after which the candidate was returned
C11_Witness ==
    /\ spc = "returned"
    /\ res.sampled
    /\ BaselineBreaches(task) # {}
    /\ task.guardrail = "none" /\ task.allow_fallback
    /\ res.code = "C4" /\ res.severity = "MAJOR"
    /\ res.returned = "candidate" /\ ~res.fallback_used

\* C12 (as stated): an exception raised by the shadow baseline runner never
\* propagates out of the shadow runtime: it becomes a C6-style event with
\* severity MINOR and the candidate's result is returned.
C12_AsStated ==
    /\ spc # "raised"
    /\ (spc = "returned" /\ Sampled(task) /\ task.baseline.raises =>
            /\ res.code = "C6" /\ res.severity = "MINOR"
            /\ res.returned = "candidate")

\* the baseline runner's exception has left run_with_shadow: no result, no
\* event, nothing logged
C12_Witness ==
    /\ spc = "raised"
    /\ task.baseline.raises
    /\ calls = <<"candidate", "baseline">>
    /\ res = NoShadowResult
    /\ logLines = <<>>

ClassifyPayloads ==
    { [BasePayload EXCEPT !.unique = u, !.grid = g, !.trace = t,
                          !.candidates = cs, !.other = o] :
        u \in {"true", "false", Absent}, g \in {"g1", "g2", Absent},
        t \in {"t1", "t2", Null, Absent}, cs \in {"c1", "c2"},
        o \in {"m1", "m2"} }
        \cup { ScalarPayload("s1"), ScalarPayload("s2") }

\* ShadowRun.verdict is a free string: the one run_shadow_check derives from
\* the payload, or one chosen by another caller
ClassifyPairs ==
    { <<[verdict |-> v, payload |-> b], MkRun(c)>> :
        v \in {"ok", "unsolved", "unknown"}, b \in ClassifyPayloads,
        c \in ClassifyPayloads }

ClassifyInit ==
    /\ pair \in { pr \in ClassifyPairs :
                    pr[1].verdict \in {VerdictFromPayload(pr[1].payload), "ok"} }
    /\ verdictOut = "pending"
    /\ PipeIdle /\ ShadowIdle /\ LibIdle

\* shadow_compare.py:508-542
Classify ==
    /\ verdictOut = "pending"
    /\ verdictOut' = ClassifyMismatch(pair[1], pair[2])
    /\ UNCHANGED pair
    /\ UNCHANGED pipeVars /\ UNCHANGED shVars /\ UNCHANGED libVars

ClassifyNext == Classify

ClassifySpec == ClassifyInit /\ [][ClassifyNext]_vars

(***************************************************************************)
(* Properties of classify_mismatch (checked under ClassifySpec)            *)
(***************************************************************************)
BothMappings(pr) == pr[1].payload.isMapping /\ pr[2].payload.isMapping
FlagsDiffer(pr) ==
    \/ pr[1].verdict # pr[2].verdict
    \/ BothMappings(pr) /\ Get(pr[1].payload.unique) # Get(pr[2].payload.unique)
GridsDiffer(pr)      == Get(pr[1].payload.grid) # Get(pr[2].payload.grid)
TracesDiffer(pr)     == Get(pr[1].payload.trace) # Get(pr[2].payload.trace)
CandidatesDiffer(pr) == Get(pr[1].payload.candidates) # Get(pr[2].payload.candidates)
BothClaimUnique(pr)  == pr[1].payload.unique = "true" /\ pr[2].payload.unique = "true"
OtherwiseUnequal(pr) ==
    IF BothMappings(pr) THEN Core(pr[1].payload) # Core(pr[2].payload)
    ELSE pr[1].payload # pr[2].payload

\* the first matching row of the table, C2 requiring that both claim unique
TableAsStated(pr) ==
    IF FlagsDiffer(pr) THEN "C1"
    ELSE IF BothMappings(pr) /\ GridsDiffer(pr) /\ BothClaimUnique(pr) THEN "C2"
    ELSE IF BothMappings(pr) /\ ~GridsDiffer(pr) /\ TracesDiffer(pr) THEN "C3"
    ELSE IF BothMappings(pr) /\ ~GridsDiffer(pr) /\ ~TracesDiffer(pr)
            /\ CandidatesDiffer(pr) THEN "C5"
    ELSE IF OtherwiseUnequal(pr) THEN "C6"
    ELSE "none"

\* the first matching row of the table, C2 requiring only that the unique
\* flags agree
TableAmended(pr) ==
    IF FlagsDiffer(pr) THEN "C1"
    ELSE IF BothMappings(pr) /\ GridsDiffer(pr) THEN "C2"
    ELSE IF BothMappings(pr) /\ TracesDiffer(pr) THEN "C3"
    ELSE IF BothMappings(pr) /\ CandidatesDiffer(pr) THEN "C5"
    ELSE IF OtherwiseUnequal(pr) THEN "C6"
    ELSE "none"

\* C8 (as stated): the payload classifier returns the code of the first
\* matching row: C1 when the unique flags differ; C2 when grids differ while
\* both claim unique; C3 when grids match but traces differ; C5 when
\* candidate sets differ while grid and trace agree; C6 on any other
\* structural inequality; NONE when the payloads are equivalent.
C8_AsStated ==
    verdictOut # "pending" => verdictOut = TableAsStated(pair)

\* C8 (what classify_mismatch computes): as above, except that C2 is returned
\* whenever the grids differ and the unique flags agree, whether or not both
\* payloads claim unique.
C8_ClassifierTable ==
    verdictOut # "pending" =>
        /\ verdictOut = TableAmended(pair)
        /\ (verdictOut # "none" => Taxonomy[verdictOut] =
                CASE verdictOut \in {"C1", "C2"} -> "CRITICAL"
                  [] verdictOut = "C3" -> "MAJOR"
                  [] OTHER -> "MINOR")

\* grids differ while both payloads say unique=false: classified C2
C8_Witness ==
    /\ verdictOut = "C2"
    /\ pair[1].payload.unique = "false"
    /\ pair[2].payload.unique = "false"
    /\ GridsDiffer(pair)

(***************************************************************************)
(* Artifacts, the artifact store and the validation center                 *)
(***************************************************************************)
\* hashlib.sha256 / uuid.uuid5 of some material
Sha256(material) == <<"sha256", material>>
Uuid5(material)  == <<"uuid5", material>>

\* compute_artifact_id over every field of the artifact but its type and body
ComputeArtifactIdEnvelopeBlind(a) == Sha256(<<a.type, a.body>>)

\* compute_artifact_id: the digest of the artifact without its artifact_id
ComputeArtifactId(a) == Sha256([a EXCEPT !.artifact_id = NoId])

\* derive_seed(root_seed, stage, parent_id)
DeriveSeed(root_seed, stage, parent_id) == Uuid5(<<root_seed, stage, parent_id>>)

\* run_id = "run-" + uuid5(root_seed)[:12]
RunIdOf(root_seed) == <<"run", Uuid5(<<root_seed>>)>>

\* _base_envelope merged with the stage's payload; created_at and
\* metrics.time_ms are functions of (seed, stage) and add nothing to them
BaseEnvelope(type, run_id, seed, stage, parents, spec_ref, body) ==
    [type |-> type, run_id |-> run_id, seed |-> seed, stage |-> stage,
     parents |-> parents, spec_ref |-> spec_ref, body |-> body,
     artifact_id |-> NoId]

\* load_artifact: the stored artifacts carrying this id ({} = FileNotFoundError)
Load(st, id) == {a \in st : a.artifact_id = id}
Exists(st, id) == Load(st, id) # {}

\* the severity profiles of contracts/profiles.py
Profiles ==
    [dev  |-> [warn_as_error |-> FALSE, grid_canonical_hash |-> TRUE],
     ci   |-> [warn_as_error |-> TRUE,  grid_canonical_hash |-> TRUE],
     prod |-> [warn_as_error |-> FALSE, grid_canonical_hash |-> FALSE]]

Issue(code, severity) == [code |-> code, severity |-> severity]

\* profiles.py:98-100  severity_overrides of the named profiles: the desired
\* severity of an issue code for an artifact type, Null when there is none
SeverityOverrides(profile, artifact_type, code) ==
    IF profile = "prod" /\ artifact_type = "Verdict"
          /\ code = "verdict.cutoff.invalid"
    THEN "WARN" ELSE Null

\* profiles.py:33-44  ProfileConfig.apply_overrides
ApplyOverrides(profile, artifact_type, issue) ==
    LET desired == SeverityOverrides(profile, artifact_type, issue.code)
    IN  IF desired # Null /\ desired # issue.severity
        THEN [issue EXCEPT !.severity = desired]
        ELSE issue

\* rulebook._resolve followed by a test of the resolved artifact's type
RefIssues(st, id, wantType) ==
    IF id = NoId \/ ~Exists(st, id)
    THEN {Issue("crossref.artifact_missing", "ERROR")}
    ELSE IF \E a \in Load(st, id) : a.type # wantType
    THEN {Issue("crossref.type_mismatch", "ERROR")}
    ELSE {}

\* rulebook._grid_canonical_hash: a WARN unless canonical_hash is
\* "sha256-" + sha256(grid)
GridCanonicalHashIssues(a) ==
    IF a.body.canonical_hash # <<"sha256-", Sha256(a.body.grid)>>
    THEN {Issue("invariant.grid.canonical_hash", "WARN")}
    ELSE {}

\* rulebook._verdict_xor: exactly one of candidate_ref / solved_ref
VerdictXorIssues(a) ==
    IF (a.body.candidate_ref # NoId) = (a.body.solved_ref # NoId)
    THEN {Issue("verdict.input_ref.xor_violation", "ERROR")}
    ELSE {}

\* rulebook._verdict_unique: unique must be a boolean
VerdictUniqueIssues(a) ==
    IF a.body.unique \notin {"true", "false"}
    THEN {Issue("type.mismatch", "ERROR")}
    ELSE {}

\* rulebook._verdict_cutoff: cutoff is None, "TIMEOUT" or "SECOND_SOLUTION_FOUND"
VerdictCutoffIssues(a) ==
    IF a.body.cutoff \notin {Null, "TIMEOUT", "SECOND_SOLUTION_FOUND"}
    THEN {Issue("verdict.cutoff.invalid", "ERROR")}
    ELSE {}

\* rulebook._verdict_refs_exist
VerdictRefIssues(st, a) ==
    UNION { IF ref = NoId THEN {} ELSE RefIssues(st, ref, "CompleteGrid") :
                ref \in {a.body.candidate_ref, a.body.solved_ref} }

\* rulebook._bundle_inputs_exist, _bundle_types_match
BundleInputIssues(st, a) ==
    RefIssues(st, a.body.complete_ref, "CompleteGrid")
        \cup RefIssues(st, a.body.verdict_ref, "Verdict")

\* rulebook._bundle_spec_consistency with the comparison removed
BundleSpecIssuesOff(st, a) == {}

\* rulebook._bundle_spec_consistency: nothing is compared when the bundle
\* carries no spec_ref
BundleSpecIssues(st, a) ==
    IF a.spec_ref # NoId
       /\ \E ref \in {a.body.complete_ref, a.body.verdict_ref} :
             \E t \in Load(st, ref) : t.spec_ref # a.spec_ref
    THEN {Issue("crossref.spec_mismatch", "ERROR")}
    ELSE {}

\* rulebook.run_invariants under the rules the profile enables
RunInvariants(a, profile) ==
    CASE a.type = "CompleteGrid" ->
            IF Profiles[profile].grid_canonical_hash
            THEN GridCanonicalHashIssues(a) ELSE {}
      [] a.type = "Verdict" ->
            VerdictXorIssues(a) \cup VerdictUniqueIssues(a)
                \cup VerdictCutoffIssues(a)
      [] OTHER -> {}

\* rulebook.run_crossrefs, resolving references in the store
RunCrossrefs(a, st) ==
    CASE a.type = "CompleteGrid" -> RefIssues(st, a.spec_ref, "Spec")
      [] a.type = "Verdict" ->
            RefIssues(st, a.spec_ref, "Spec") \cup VerdictRefIssues(st, a)
      [] a.type = "ExportBundle" ->
            BundleInputIssues(st, a) \cup BundleSpecIssues(st, a)
      [] OTHER -> {}

\* the issues the stages of validator.validate produce, before overrides
StageIssues(a, expect_type, profile, st) ==
    (IF a.type # expect_type THEN {Issue("type.mismatch", "ERROR")} ELSE {})
        \cup RunInvariants(a, profile) \cup RunCrossrefs(a, st)

\* validator.validate: every stage's issues pass through _apply_overrides,
\* which files an issue under warnings when its adjusted severity is WARN
\* and under errors otherwise
Validate(a, expect_type, profile, st) ==
    LET adjusted == { ApplyOverrides(profile, expect_type, i) :
                        i \in StageIssues(a, expect_type, profile, st) }
        errors   == {i \in adjusted : i.severity # "WARN"}
        warnings == {i \in adjusted : i.severity = "WARN"}
    IN  [ok |-> errors = {}, errors |-> errors, warnings |-> warnings]

\* validator.assert_valid with the test of the warnings removed
AssertValidIgnoringWarnings(a, expect_type, profile, st) ==
    Validate(a, expect_type, profile, st).ok

\* validator.assert_valid: TRUE when it returns, FALSE when it raises
AssertValid(a, expect_type, profile, st) ==
    LET report == Validate(a, expect_type, profile, st)
    IN  report.ok /\ ~(Profiles[profile].warn_as_error /\ report.warnings # {})

\* validator.check_refs(bundle_id): load the bundle, validate it as ExportBundle
CheckRefs(bundle_id, profile, st) ==
    IF ~Exists(st, bundle_id)
    THEN [raised |-> TRUE, ok |-> FALSE]
    ELSE [raised |-> FALSE,
          ok |-> \A b \in Load(st, bundle_id) :
                    Validate(b, "ExportBundle", profile, st).ok]

\* orchestrator.py:402-407 with the test of the report removed
ExportGateOpen(report) == TRUE

\* orchestrator.py:402-407: the printer is reached only past this test
ExportGate(report) == ~report.raised /\ report.ok

(***************************************************************************)
(* run_pipeline: the stage payloads                                        *)
(***************************************************************************)
Runs == {1, 2}

Finalise(a) == [a EXCEPT !.artifact_id = ComputeArtifactId(a)]

\* build_spec_from_config: the puzzle kind plus the static configuration
SpecPayload(kind) == [name |-> kind, config |-> "project-config"]

\* port_generate_complete: the offset is a digest modulo the grid size, so
\* distinct seeds may share it; the model takes the case where they do
GridOffset(seed, spec_id, name) == 0

\* port_generate_complete: canonical_hash is written as "sha256:" + digest
GridPayload(seed, spec) ==
    LET grid == <<"pattern-grid", GridOffset(seed, spec.artifact_id, spec.body.name)>>
    IN  [encoding |-> "row-major-string", grid |-> grid,
         canonical_hash |-> <<"sha256:", Sha256(grid)>>]

\* port_check_uniqueness on a generated (hence solved) grid
SolverPayload(complete_id) ==
    [unique |-> "true", cutoff |-> Null, solved_ref |-> complete_id,
     candidate_ref |-> NoId, time_ms |-> 5, nodes |-> 0]

\* a counterpart implementation that disagrees on uniqueness
DivergedPayload(complete_id) ==
    [unique |-> "false", cutoff |-> "SECOND_SOLUTION_FOUND", solved_ref |-> NoId,
     candidate_ref |-> complete_id, time_ms |-> 5, nodes |-> 0]

\* a verdict payload as the shadow runtime sees it; trace is the key the
\* novus solver adds when it delegates to legacy
ShadowView(body, trace) ==
    [isMapping |-> TRUE, unique |-> body.unique, grid |-> Absent, trace |-> trace,
     candidates |-> Absent,
     other |-> <<body.cutoff, body.solved_ref, body.candidate_ref>>,
     nodes |-> body.nodes, bt_depth |-> 0, time_ms |-> body.time_ms]

SpecArtifact(root_seed, kind) ==
    Finalise(BaseEnvelope("Spec", RunIdOf(root_seed),
                          DeriveSeed(root_seed, "stage.config.spec", NoId),
                          "stage.config.spec", <<>>, NoId, SpecPayload(kind)))

CompleteArtifact(root_seed, spec) ==
    LET seed == DeriveSeed(root_seed, "stage.generate.complete", spec.artifact_id)
    IN  Finalise(BaseEnvelope("CompleteGrid", RunIdOf(root_seed), seed,
                              "stage.generate.complete", <<spec.artifact_id>>,
                              spec.artifact_id, GridPayload(seed, spec)))

VerdictArtifact(root_seed, spec_id, complete_id) ==
    Finalise(BaseEnvelope("Verdict", RunIdOf(root_seed),
                          DeriveSeed(root_seed, "stage.solve.verify", complete_id),
                          "stage.solve.verify", <<spec_id, complete_id>>,
                          spec_id, SolverPayload(complete_id)))

BundleArtifact(root_seed, spec_id, complete_id, verdict_id) ==
    Finalise(BaseEnvelope("ExportBundle", RunIdOf(root_seed),
                          DeriveSeed(root_seed, "stage.export.bundle", verdict_id),
                          "stage.export.bundle", <<complete_id, verdict_id>>,
                          spec_id,
                          [complete_ref |-> complete_id, verdict_ref |-> verdict_id,
                           format |-> "pdf"]))

(***************************************************************************)
(* run_pipeline: configuration and initial state                           *)
(***************************************************************************)
\* shadowMode: "off"; "flag_only" (SHADOW_MODE_ENABLED set, policy disabled);
\* "policy" (SHADOW_ENABLED set).  salt: SHADOW_HASH_SALT unset or set to "".
\* counterpart: what the other solver implementation answers.
Environments ==
    { e \in [kind : {"sudoku-9x9"}, shadowMode : {"off", "flag_only", "policy"},
             salt : {"unset", "empty"}, rate : {0, RateDen},
             counterpart : {"delegated", "diverged"}, allowFallback : BOOLEAN] :
        \* settings that are never read are held at one value
        /\ (e.shadowMode = "off" => e.salt = "unset")
        /\ (e.shadowMode # "policy" => e.rate = 0)
        /\ (e.rate = 0 => e.counterpart = "delegated" /\ e.allowFallback) }

RunInputs ==
    { i \in [Runs -> [root_seed : {"seed-a", "seed-b"},
                      profile : {"dev", "ci", "prod"}]] :
        \* up to the order of the two invocations
        i[1].root_seed = "seed-a" /\ i[1].profile # "ci" }

NoShadowOut ==
    [event |-> "pending", sampled |-> FALSE, code |-> "none", severity |-> "NONE",
     returned |-> "nothing", fallback_used |-> FALSE]

NoResults ==
    [spec_id |-> NoId, complete_id |-> NoId, verdict_id |-> NoId,
     bundle_id |-> NoId, verdict_unique |-> "none",
     crossref |-> "pending", pdf |-> FALSE]

Init ==
    /\ env \in Environments
    /\ inp \in RunInputs
    /\ pc = [r \in Runs |-> "spec"]
    /\ art = [r \in Runs |-> NoResults]
    /\ store = {}
    /\ hist = [r \in Runs |-> <<>>]
    /\ shadowOut = [r \in Runs |-> NoShadowOut]
    /\ err = [r \in Runs |-> "none"]
    /\ removals = 0
    /\ ShadowIdle /\ ClassifyIdle /\ LibIdle

\* hash_salt = str(shadow_policy.get("hash_salt") or ""), default "dev-seed"
HashSalt(e) == IF e.salt = "unset" THEN "dev-seed" ELSE ""

\* shadow_enabled = policy.enabled or is_shadow_mode_enabled(env)
ShadowEnabled(e) == e.shadowMode \in {"flag_only", "policy"}

\* _compute_shadow_settings: a disabled policy forces the rate to zero
PolicySampleRate(e) == IF e.shadowMode = "policy" THEN e.rate ELSE 0

(***************************************************************************)
(* run_pipeline: one action per step                                       *)
(***************************************************************************)
othersUnchanged == UNCHANGED <<task, spc, calls, res, pair, verdictOut, libVars>>

\* the invocation ends with an exception
Raise(r, exception) ==
    /\ pc' = [pc EXCEPT ![r] = "failed"]
    /\ err' = [err EXCEPT ![r] = exception]

\* _finalise_and_store with save_artifact ahead of assert_valid
FinaliseAndStoreSaveFirst(r, a, idField, step, next) ==
    /\ store' = store \cup {a}
    /\ IF AssertValid(a, a.type, inp[r].profile, store)
       THEN /\ art' = [art EXCEPT ![r][idField] = a.artifact_id]
            /\ hist' = [hist EXCEPT ![r] = Append(@, step)]
            /\ pc' = [pc EXCEPT ![r] = next]
            /\ UNCHANGED err
       ELSE /\ Raise(r, "ManagedValidationError")
            /\ UNCHANGED <<art, hist>>

\* _finalise_and_store: assert_valid, then save_artifact
FinaliseAndStore(r, a, idField, step, next) ==
    IF AssertValid(a, a.type, inp[r].profile, store)
    THEN /\ store' = store \cup {a}
         /\ art' = [art EXCEPT ![r][idField] = a.artifact_id]
         /\ hist' = [hist EXCEPT ![r] = Append(@, step)]
         /\ pc' = [pc EXCEPT ![r] = next]
         /\ UNCHANGED err
    ELSE /\ Raise(r, "ManagedValidationError")
         /\ UNCHANGED <<store, art, hist>>

\* orchestrator.py:237-252
StoreSpec(r) ==
    /\ pc[r] = "spec"
    /\ FinaliseAndStore(r, SpecArtifact(inp[r].root_seed, env.kind),
                        "spec_id", "store:Spec", "complete")
    /\ UNCHANGED <<env, inp, shadowOut, removals, logLines>>
    /\ othersUnchanged

\* orchestrator.py:254-282
StoreCompleteGrid(r) ==
    /\ pc[r] = "complete"
    /\ FinaliseAndStore(r, CompleteArtifact(inp[r].root_seed,
                                            SpecArtifact(inp[r].root_seed, env.kind)),
                        "complete_id", "store:CompleteGrid", "verdict")
    /\ UNCHANGED <<env, inp, shadowOut, removals, logLines>>
    /\ othersUnchanged

\* orchestrator.py:284-314
StoreVerdict(r) ==
    /\ pc[r] = "verdict"
    /\ LET a == VerdictArtifact(inp[r].root_seed, art[r].spec_id, art[r].complete_id)
       IN  IF AssertValid(a, "Verdict", inp[r].profile, store)
           THEN /\ store' = store \cup {a}
                /\ art' = [art EXCEPT ![r].verdict_id = a.artifact_id,
                                      ![r].verdict_unique = a.body.unique]
                /\ hist' = [hist EXCEPT ![r] = Append(@, "store:Verdict")]
                /\ pc' = [pc EXCEPT ![r] = "shadow"]
                /\ UNCHANGED err
           ELSE /\ Raise(r, "ManagedValidationError")
                /\ UNCHANGED <<store, art, hist>>
    /\ UNCHANGED <<env, inp, shadowOut, removals, logLines>>
    /\ othersUnchanged

\* the ShadowTask run_shadow_check builds (shadow_compare.py:748-812)
PipelineTask(r) ==
    LET primary == SolverPayload(art[r].complete_id)
        other   == IF env.counterpart = "diverged"
                   THEN ShadowView(DivergedPayload(art[r].complete_id), Absent)
                   ELSE ShadowView(primary, "delegated_to_legacy")
    IN  [sample_rate |-> PolicySampleRate(env), u64 |-> 0,
         guardrail |-> "none", allow_fallback |-> env.allowFallback,
         log_mismatch |-> TRUE, classifier |-> "default",
         candidate |-> MkRun(ShadowView(primary, Absent)),
         \* _resolve_counterpart asks the router for state "shadow", which
         \* the router refuses under the ci profile
         baseline |-> [raises |-> inp[r].profile = "ci", run |-> MkRun(other)],
         measuredMs |-> 1]

\* orchestrator.py:316-377: the prod salt test, then run_shadow_check or the
\* "disabled" event
ShadowConsult(r) ==
    /\ pc[r] = "shadow"
    /\ IF ShadowEnabled(env) /\ inp[r].profile = "prod" /\ HashSalt(env) = ""
       THEN /\ Raise(r, "RuntimeError")
            /\ UNCHANGED <<shadowOut, hist, logLines>>
       ELSE IF ~ShadowEnabled(env)
       THEN /\ shadowOut' = [shadowOut EXCEPT ![r] =
                                [NoShadowOut EXCEPT !.event = "shadow_compare.disabled"]]
            /\ hist' = [hist EXCEPT ![r] = Append(@, "shadow")]
            /\ pc' = [pc EXCEPT ![r] = "bundle"]
            /\ UNCHANGED <<err, logLines>>
       ELSE LET t == PipelineTask(r)
            IN  IF Sampled(t) /\ t.baseline.raises
                THEN /\ Raise(r, "RouterError")
                     /\ UNCHANGED <<shadowOut, hist, logLines>>
                ELSE LET sr == IF Sampled(t)
                               THEN SampledResult(t, t.baseline.run, t.candidate)
                               ELSE SkippedResult
                     IN  /\ shadowOut' = [shadowOut EXCEPT ![r] =
                                [event |-> sr.event, sampled |-> sr.sampled,
                                 code |-> sr.code, severity |-> sr.severity,
                                 returned |-> sr.returned,
                                 fallback_used |-> sr.fallback_used]]
                         /\ logLines' = IF sr.logged
                                        THEN Append(logLines,
                                                    [type |-> sr.event, code |-> sr.code])
                                        ELSE logLines
                         /\ hist' = [hist EXCEPT ![r] = Append(@, "shadow")]
                         /\ pc' = [pc EXCEPT ![r] = "bundle"]
                         /\ UNCHANGED err
    /\ UNCHANGED <<env, inp, art, store, removals>>
    /\ othersUnchanged

\* StoreExportBundle reachable before the shadow subsystem was consulted
StoreExportBundleEarly(r) ==
    /\ pc[r] \in {"shadow", "bundle"}
    /\ FinaliseAndStore(r, BundleArtifact(inp[r].root_seed, art[r].spec_id,
                                          art[r].complete_id, art[r].verdict_id),
                        "bundle_id", "store:ExportBundle", "crossref")
    /\ UNCHANGED <<env, inp, shadowOut, removals, logLines>>
    /\ othersUnchanged

\* orchestrator.py:379-399
StoreExportBundle(r) ==
    /\ pc[r] = "bundle"
    /\ FinaliseAndStore(r, BundleArtifact(inp[r].root_seed, art[r].spec_id,
                                          art[r].complete_id, art[r].verdict_id),
                        "bundle_id", "store:ExportBundle", "crossref")
    /\ UNCHANGED <<env, inp, shadowOut, removals, logLines>>
    /\ othersUnchanged

\* orchestrator.py:401-407
CrossrefCheck(r) ==
    /\ pc[r] = "crossref"
    /\ LET report == CheckRefs(art[r].bundle_id, inp[r].profile, store)
       IN  /\ hist' = [hist EXCEPT ![r] = Append(@, "crossref")]
           /\ art' = [art EXCEPT ![r].crossref =
                        IF ~report.raised /\ report.ok THEN "ok" ELSE "failed"]
           /\ IF ExportGate(report)
              THEN pc' = [pc EXCEPT ![r] = "printer"] /\ UNCHANGED err
              ELSE Raise(r, IF report.raised THEN "FileNotFoundError"
                            ELSE "ManagedValidationError")
    /\ UNCHANGED <<env, inp, store, shadowOut, removals, logLines>>
    /\ othersUnchanged

\* orchestrator.py:409-428
InvokePrinter(r) ==
    /\ pc[r] = "printer"
    /\ hist' = [hist EXCEPT ![r] = Append(@, "printer")]
    /\ art' = [art EXCEPT ![r].pdf = TRUE]
    /\ pc' = [pc EXCEPT ![r] = "done"]
    /\ UNCHANGED <<env, inp, store, shadowOut, err, removals, logLines>>
    /\ othersUnchanged

\* another process removes one artifact file from the shared directory
ExternalRemove ==
    /\ removals < MaxRemovals
    /\ \E a \in store : store' = store \ {a}
    /\ removals' = removals + 1
    /\ UNCHANGED <<env, inp, pc, art, hist, shadowOut, err, logLines>>
    /\ othersUnchanged

Next ==
    \/ \E r \in Runs : StoreSpec(r)
    \/ \E r \in Runs : StoreCompleteGrid(r)
    \/ \E r \in Runs : StoreVerdict(r)
    \/ \E r \in Runs : ShadowConsult(r)
    \/ \E r \in Runs : StoreExportBundle(r)
    \/ \E r \in Runs : CrossrefCheck(r)
    \/ \E r \in Runs : InvokePrinter(r)
    \/ ExternalRemove

Spec == Init /\ [][Next]_vars

(***************************************************************************)
(* Properties of run_pipeline (checked under Spec)                         *)
(***************************************************************************)
Contains(seq, x) == \E i \in 1..Len(seq) : seq[i] = x

FixedOrder ==
    <<"store:Spec", "store:CompleteGrid", "store:Verdict", "shadow",
      "store:ExportBundle", "crossref", "printer">>

\* C2: every run of run_pipeline performs its steps in one fixed order:
\* store Spec, store CompleteGrid, store Verdict, consult the shadow
\* subsystem, store ExportBundle, cross-reference check, printer; no artifact
\* of a later stage is stored before the artifact of every earlier stage.
C2_FixedStepOrder ==
    \A r \in Runs :
        /\ Len(hist[r]) <= Len(FixedOrder)
        /\ hist[r] = SubSeq(FixedOrder, 1, Len(hist[r]))
        /\ (art[r].complete_id # NoId => art[r].spec_id # NoId)
        /\ (art[r].verdict_id # NoId => art[r].complete_id # NoId)
        /\ (art[r].bundle_id # NoId =>
                art[r].verdict_id # NoId /\ Contains(hist[r], "shadow"))

\* a run that went through all seven steps
C2_Witness ==
    \E r \in Runs : pc[r] = "done" /\ hist[r] = FixedOrder

IdFields == {"spec_id", "complete_id", "verdict_id", "bundle_id"}

C4_AsStated ==
    \A r \in Runs :
        inp[r].profile = "ci" /\ removals = 0 /\ env.shadowMode = "off"
            => pc[r] # "failed"

\* a ci run that aborted on the CompleteGrid although nothing interfered
C4_Witness ==
    \E r \in Runs :
        /\ inp[r].profile = "ci" /\ removals = 0 /\ env.shadowMode = "off"
        /\ pc[r] = "failed" /\ err[r] = "ManagedValidationError"
        /\ hist[r] = <<"store:Spec">>
        /\ \E q \in Runs : inp[q].profile = "dev" /\ pc[q] = "done"
                            /\ inp[q].root_seed = inp[r].root_seed

\* C5 (as stated): the missing-salt configuration error of the prod profile
\* is raised at pipeline start, before any artifact is produced or stored.
C5_AsStated ==
    \A r \in Runs :
        err[r] = "RuntimeError" =>
            /\ hist[r] = <<>>
            /\ art[r].spec_id = NoId
            /\ \A a \in store : a.run_id # RunIdOf(inp[r].root_seed)

\* the salt error of a prod run, raised after three artifacts were stored
C5_Witness ==
    \E r \in Runs :
        /\ inp[r].profile = "prod" /\ HashSalt(env) = ""
        /\ err[r] = "RuntimeError"
        /\ hist[r] = <<"store:Spec", "store:CompleteGrid", "store:Verdict">>
        /\ \E a \in store : a.type = "Verdict" /\ a.artifact_id = art[r].verdict_id

\* C10 (as stated): when the candidate says unique=true, the shadow says
\* unique=false (C1, CRITICAL) and allow_fallback is true, the result of the
\* solver step the orchestrator goes on with is the shadow's.
C10_AsStated ==
    \A r \in Runs :
        /\ shadowOut[r].sampled
        /\ shadowOut[r].code = "C1"
        /\ shadowOut[r].severity = "CRITICAL"
        /\ env.counterpart = "diverged"
        /\ env.allowFallback
        => art[r].verdict_unique = "false"

\* the runtime chose the baseline (fallback_used), yet the bundle was built
\* on the candidate's Verdict
C10_Witness ==
    \E r \in Runs :
        /\ shadowOut[r].sampled /\ shadowOut[r].code = "C1"
        /\ env.allowFallback
        /\ shadowOut[r].fallback_used /\ shadowOut[r].returned = "baseline"
        /\ art[r].verdict_unique = "true"
        /\ pc[r] = "done"
        /\ \E b \in store : /\ b.artifact_id = art[r].bundle_id
                            /\ b.body.verdict_ref = art[r].verdict_id

(***************************************************************************)
(* LogSpec: orchestrator/log.py, threads of one process in append_event    *)
(*                                                                         *)
(* A log file is the sequence of chunks handed to the operating system.    *)
(* handle.write(line + "\n") reaches the file as the serialised line       *)
(* followed by the newline; the two are separate steps of the model, so    *)
(* that a write by another thread between them is observable.              *)
(***************************************************************************)
Threads  == 1 .. NumThreads
LineLens == 1 .. MaxLineLen
NoPath   == <<>>
NoLine   == [ev |-> <<>>, len |-> 0]
NoLocal  == [path |-> NoPath, date |-> 0, size |-> 0]

\* log.py:29-30  _date_prefix(): the UTC date now
DatePrefix == logClock

\* log.py:39,45  path.stat().st_size
RECURSIVE ChunkBytes(_)
ChunkBytes(f) == IF f = <<>> THEN 0 ELSE Head(f).bytes + ChunkBytes(Tail(f))
StSize(files, path) == IF path \in DOMAIN files THEN ChunkBytes(files[path]) ELSE 0

\* log.py:42-48  the first shadow_NN.jsonl of the date directory that does
\* not exist or is below _MAX_BYTES
RECURSIVE FirstCandidate(_, _, _)
FirstCandidate(files, date, counter) ==
    LET candidate == <<date, counter>> IN
    IF candidate \notin DOMAIN files \/ StSize(files, candidate) < MaxBytes
    THEN candidate
    ELSE FirstCandidate(files, date, counter + 1)

\* log.py:33-48  _resolve_log_path(): the cached path while it exists and is
\* below _MAX_BYTES, else the first candidate of today's directory
ResolveLogPath(files, cur, date) ==
    IF cur # NoPath /\ cur \in DOMAIN files /\ StSize(files, cur) < MaxBytes
    THEN cur
    ELSE FirstCandidate(files, date, 0)

\* log.py:58  with _LOCK: the lock can be taken when no thread holds it
LockFreeAlways == TRUE
LockFree == lock = 0

\* log.py:13-26  the module after configure(base_dir, max_bytes=MaxBytes):
\* no path is cached, the lock is free, nothing is written yet
LogInit ==
    /\ logClock = 1
    /\ logDirs = {}
    /\ logFiles = [q \in {} |-> <<>>]
    /\ currentPath = NoPath
    /\ lock = 0
    /\ lpc = [t \in Threads |-> "idle"]
    /\ lline = [t \in Threads |-> NoLine]
    /\ lpath = [t \in Threads |-> NoLocal]
    /\ lseq = [t \in Threads |-> 0]
    /\ writes = <<>>
    /\ PipeIdle /\ ShadowIdle /\ ClassifyIdle /\ StoreIdle /\ CanonIdle
    /\ ValidatorIdle /\ FnIdle

logOthersUnchanged ==
    /\ UNCHANGED pipeVars /\ UNCHANGED shVars /\ UNCHANGED clVars
    /\ UNCHANGED stVars /\ UNCHANGED cnVars /\ UNCHANGED vaVars
    /\ UNCHANGED fnVars

\* the append_event calls made so far, completed or in progress
RECURSIVE CallsMade(_)
CallsMade(ts) ==
    IF ts = {} THEN 0
    ELSE LET t == CHOOSE x \in ts : TRUE
         IN lseq[t] + (IF lpc[t] = "idle" THEN 0 ELSE 1) + CallsMade(ts \ {t})

\* log.py:54-57  the event is serialised before the lock is requested
BuildLine(t) ==
    /\ lpc[t] = "idle" /\ CallsMade(Threads) < MaxAppends
    /\ \E n \in LineLens :
         lline' = [lline EXCEPT ![t] = [ev |-> <<t, lseq[t] + 1>>, len |-> n]]
    /\ lpc' = [lpc EXCEPT ![t] = "built"]
    /\ UNCHANGED <<logClock, logDirs, logFiles, currentPath, lock, lpath,
                   lseq, writes>>
    /\ logOthersUnchanged

\* log.py:58  with _LOCK
AcquireLock(t) ==
    /\ lpc[t] = "built" /\ LockFree
    /\ lock' = t
    /\ lpc' = [lpc EXCEPT ![t] = "locked"]
    /\ UNCHANGED <<logClock, logDirs, logFiles, currentPath, lline, lpath,
                   lseq, writes>>
    /\ logOthersUnchanged

\* log.py:59, 33-48  path = _resolve_log_path(); today's directory is made,
\* and _CURRENT_PATH is (re)assigned when the cached path is not returned
Resolve(t) ==
    /\ lpc[t] = "locked"
    /\ LET path == ResolveLogPath(logFiles, currentPath, DatePrefix) IN
         /\ logDirs' = logDirs \cup {DatePrefix}
         /\ currentPath' = path
         /\ lpath' = [lpath EXCEPT ![t] =
                        [path |-> path, date |-> DatePrefix,
                         size |-> StSize(logFiles, path)]]
    /\ lpc' = [lpc EXCEPT ![t] = "resolved"]
    /\ UNCHANGED <<logClock, logFiles, lock, lline, lseq, writes>>
    /\ logOthersUnchanged

\* log.py:60-61  path.open("a") creates the file when it is missing; the
\* serialised line is appended at the end of the file
WriteLine(t) ==
    /\ lpc[t] = "resolved"
    /\ LET path  == lpath[t].path
           old   == IF path \in DOMAIN logFiles THEN logFiles[path] ELSE <<>>
           chunk == [ev |-> lline[t].ev, part |-> "body", bytes |-> lline[t].len]
       IN /\ logFiles' = (path :> Append(old, chunk)) @@ logFiles
          /\ writes' = Append(writes,
                          [ev |-> lline[t].ev, path |-> path,
                           date |-> lpath[t].date,
                           sizeBefore |-> ChunkBytes(old),
                           bytes |-> lline[t].len + 1])
    /\ lpc' = [lpc EXCEPT ![t] = "writing"]
    /\ UNCHANGED <<logClock, logDirs, currentPath, lock, lline, lpath, lseq>>
    /\ logOthersUnchanged

\* log.py:61-62  the newline follows, the file is closed, _LOCK is released
\* and the path is returned
FinishWrite(t) ==
    /\ lpc[t] = "writing"
    /\ LET path  == lpath[t].path
           old   == IF path \in DOMAIN logFiles THEN logFiles[path] ELSE <<>>
           chunk == [ev |-> lline[t].ev, part |-> "nl", bytes |-> 1]
       IN logFiles' = (path :> Append(old, chunk)) @@ logFiles
    /\ lock' = 0
    /\ lseq' = [lseq EXCEPT ![t] = @ + 1]
    /\ lpc' = [lpc EXCEPT ![t] = "idle"]
    /\ lline' = [lline EXCEPT ![t] = NoLine]
    /\ lpath' = [lpath EXCEPT ![t] = NoLocal]
    /\ UNCHANGED <<logClock, logDirs, currentPath, writes>>
    /\ logOthersUnchanged

\* the UTC date advances
Tick ==
    /\ logClock < MaxDays
    /\ logClock' = logClock + 1
    /\ UNCHANGED <<logDirs, logFiles, currentPath, lock, lpc, lline, lpath,
                   lseq, writes>>
    /\ logOthersUnchanged

LogNext ==
    \/ \E t \in Threads : BuildLine(t)
    \/ \E t \in Threads : AcquireLock(t)
    \/ \E t \in Threads : Resolve(t)
    \/ \E t \in Threads : WriteLine(t)
    \/ \E t \in Threads : FinishWrite(t)
    \/ Tick

LogSpec == LogInit /\ [][LogNext]_vars

(***************************************************************************)
(* Claims about the event log                                              *)
(***************************************************************************)
InCritical(t) == lpc[t] \in {"locked", "resolved", "writing"}

\* the positions <<path, i>> of the chunks of event e with the given part
ChunksOf(e, part) ==
    { pi \in UNION { { <<q, i>> : i \in DOMAIN logFiles[q] } : q \in DOMAIN logFiles } :
        logFiles[pi[1]][pi[2]].ev = e /\ logFiles[pi[1]][pi[2]].part = part }

\* a file is a sequence of complete lines, but for the line being written
WholeLines(f) ==
    \A i \in DOMAIN f :
        IF i % 2 = 1
        THEN /\ f[i].part = "body"
             /\ (i = Len(f) => lpc[f[i].ev[1]] = "writing"
                                /\ lline[f[i].ev[1]].ev = f[i].ev)
        ELSE f[i].part = "nl" /\ f[i].ev = f[i - 1].ev

\* C14: for threads of one process calling append_event concurrently, the
\* choice of the active file (with its size check) and the write happen
\* under one mutex: at most one thread is between taking the lock and
\* releasing it, the file chosen is untouched by others until the line is
\* written, every file is a sequence of complete lines, and every event is
\* written exactly once.
C14_AtomicAppend ==
    /\ Cardinality({ t \in Threads : InCritical(t) }) <= 1
    /\ \A t \in Threads :
         /\ InCritical(t) => lock = t
         /\ lpc[t] = "resolved" =>
              StSize(logFiles, lpath[t].path) = lpath[t].size
         /\ lpc[t] = "writing" =>
              StSize(logFiles, lpath[t].path) = lpath[t].size + lline[t].len
         /\ \A k \in 1 .. MaxAppends :
              LET started == k <= lseq[t] \/ (k = lseq[t] + 1 /\ lpc[t] = "writing")
              IN /\ Cardinality(ChunksOf(<<t, k>>, "body")) = (IF started THEN 1 ELSE 0)
                 /\ Cardinality(ChunksOf(<<t, k>>, "nl")) = (IF k <= lseq[t] THEN 1 ELSE 0)
    /\ \A q \in DOMAIN logFiles : WholeLines(logFiles[q])

\* two threads contend: one is in the middle of its write, into a file that
\* holds a line of the other, while the other has its next line ready and
\* waits for the lock
C14_Witness ==
    \E a, b \in Threads :
        /\ a # b /\ lpc[a] = "writing" /\ lpc[b] = "built" /\ lock = a
        /\ lseq[b] >= 1
        /\ \E i, j \in DOMAIN logFiles[lpath[a].path] :
              /\ logFiles[lpath[a].path][i].ev[1] = a
              /\ logFiles[lpath[a].path][j].ev[1] = b

\* C15 (as stated): a line whose write would make the active file exceed
\* max_bytes goes to the file with the next index instead, so no line is
\* appended to a non-empty file that it pushes over max_bytes.
C15_AsStated ==
    \A i \in DOMAIN writes :
        writes[i].sizeBefore + writes[i].bytes > MaxBytes
            => writes[i].sizeBefore = 0

\* a line was appended to a non-empty active file below max_bytes, and the
\* file is larger than max_bytes after the write
C15_Witness ==
    \E i \in DOMAIN writes :
        /\ writes[i].sizeBefore > 0 /\ writes[i].sizeBefore < MaxBytes
        /\ writes[i].sizeBefore + writes[i].bytes > MaxBytes
        /\ writes[i].path \in DOMAIN logFiles
        /\ StSize(logFiles, writes[i].path) > MaxBytes

\* C16 (as stated): every line is written to a file of the directory named
\* for the UTC date read by that append_event call.
C16_AsStated ==
    \A i \in DOMAIN writes : writes[i].path[1] = writes[i].date

\* the UTC date changed between two appends and the later line went to the
\* file of the earlier date
C16_Witness ==
    \E i, j \in DOMAIN writes :
        /\ i < j /\ writes[i].path = writes[j].path
        /\ writes[i].date = writes[i].path[1]
        /\ writes[j].date # writes[j].path[1]
        /\ writes[j].date \in logDirs

(***************************************************************************)
(* artifacts/artifact_store.py on Python mappings                          *)
(*                                                                         *)
(* A mapping is the sequence of its items in insertion order.  A string is *)
(* its characters together with its Unicode composition form: an ASCII     *)
(* string has the one form "nfc", a string with an accented letter is      *)
(* either precomposed ("nfc") or decomposed ("nfd").  The bytes of a JSON  *)
(* document are the tagged structure they encode.                          *)
(***************************************************************************)
Str(base, form) == [base |-> base, form |-> form]
PyNone          == [none |-> TRUE]
IsStr(v)        == "form" \in DOMAIN v
Item(k, v)      == [key |-> k, val |-> v]

\* artifact_store.py:25  unicodedata.normalize("NFC", obj)
Nfc(str) == [str EXCEPT !.form = "nfc"]

ArtifactIdKey   == Str("artifact_id", "nfc")
TypeKey         == Str("type", "nfc")
AccentKey(form) == Str("e_acute", form)

\* artifact_store.py:21  key=lambda item: str(item[0]): code point order.
\* "artifact_id" < "e" + U+0301 < "type" < U+00E9
StrOrder(k) ==
    IF k = ArtifactIdKey THEN 1
    ELSE IF k = AccentKey("nfd") THEN 2
    ELSE IF k = TypeKey THEN 3
    ELSE 4

\* dict.get / dict.__setitem__ / dict.pop
DictGet(d, k) ==
    IF \E i \in DOMAIN d : d[i].key = k
    THEN d[CHOOSE i \in DOMAIN d : d[i].key = k].val
    ELSE PyNone
DictSet(d, k, v) ==
    IF \E i \in DOMAIN d : d[i].key = k
    THEN [i \in DOMAIN d |-> IF d[i].key = k THEN Item(k, v) ELSE d[i]]
    ELSE Append(d, Item(k, v))
DictPop(d, k) == SelectSeq(d, LAMBDA e : e.key # k)

\* artifact_store.py:21  sorted(obj.items(), key=...)
RECURSIVE SortedItems(_)
SortedItems(items) ==
    IF items = {} THEN <<>>
    ELSE LET m == CHOOSE e \in items :
                    \A o \in items : StrOrder(e.key) <= StrOrder(o.key)
         IN <<m>> \o SortedItems(items \ {m})

\* artifact_store.py:17-30  _normalize: the items sorted by str(key), the key
\* kept as str(k), string values brought to NFC
NormalizeValue(v) == IF IsStr(v) THEN Nfc(v) ELSE v
Normalize(d) ==
    SortedItems({ Item(d[i].key, NormalizeValue(d[i].val)) : i \in DOMAIN d })

\* artifact_store.py:33-41  canonicalize: json.dumps(_normalize(obj), ...)
Canonicalize(d) == <<"json", Normalize(d)>>
\* artifact_store.py:103  json.loads
JsonLoads(bytes) == bytes[2]

\* artifact_store.py:44-57  compute_artifact_id
ComputeArtifactIdKeepingId(d) == [id |-> Sha256(Canonicalize(d))]
ComputeArtifactIdBytes(d) ==
    [id |-> Sha256(Canonicalize(DictPop(d, ArtifactIdKey)))]

\* artifact_store.py:75  existing_id is not None and existing_id != artifact_id
IdMismatchNever(existing_id, artifact_id) == FALSE
IdMismatch(existing_id, artifact_id) ==
    existing_id # PyNone /\ existing_id # artifact_id

NoFiles == [q \in {} |-> <<>>]

\* artifact_store.py:60-90  save_artifact(obj) on the directory fs: the
\* outcome, the directory afterwards and the caller's mapping afterwards
SaveArtifact(obj, fs) ==
    LET artifact_id == ComputeArtifactIdBytes(obj)
        existing_id == DictGet(obj, ArtifactIdKey)
        artifact_copy == DictSet(obj, ArtifactIdKey, artifact_id)
        artifact_type == DictGet(artifact_copy, TypeKey)
    IN IF IdMismatch(existing_id, artifact_id)
       THEN [outcome |-> "ValueError_id", id |-> PyNone, fs |-> fs, obj |-> obj]
       ELSE IF ~IsStr(artifact_type) \/ artifact_type.base = ""
       THEN [outcome |-> "ValueError_type", id |-> PyNone, fs |-> fs, obj |-> obj]
       ELSE [outcome |-> "ok", id |-> artifact_id,
             fs |-> (<<artifact_type, artifact_id>> :> Canonicalize(artifact_copy)) @@ fs,
             obj |-> DictSet(obj, ArtifactIdKey, artifact_id)]

\* the mappings a caller passes to save_artifact
Reverse(d) == [i \in DOMAIN d |-> d[Len(d) + 1 - i]]
TypeItems ==
    { <<Item(TypeKey, Str(t, "nfc"))>> : t \in {"Spec", "Verdict", ""} } \cup { <<>> }
AccentItems ==
    { <<Item(AccentKey(kf), Str("cafe_acute", vf))>> :
        kf \in {"nfc", "nfd"}, vf \in {"nfc", "nfd"} }
Contents == { t \o a : t \in TypeItems, a \in AccentItems }
WithArtifactId(c) ==
    { c,
      Append(c, Item(ArtifactIdKey, PyNone)),
      Append(c, Item(ArtifactIdKey, ComputeArtifactIdBytes(c))),
      Append(c, Item(ArtifactIdKey, ComputeArtifactIdBytes(<<>>))) }
StoreInputs ==
    UNION { { d, Reverse(d) } : d \in UNION { WithArtifactId(c) : c \in Contents } }

NoSave ==
    [outcome |-> "none", id |-> PyNone, input |-> <<>>, before |-> NoFiles,
     again |-> FALSE, prevId |-> PyNone]

ArtifactStoreInit ==
    /\ artFiles = NoFiles
    /\ held = [obj |-> <<>>, savedId |-> PyNone]
    /\ saveResult = NoSave
    /\ saves = 0
    /\ PipeIdle /\ ShadowIdle /\ ClassifyIdle /\ LogIdle /\ CanonIdle
    /\ ValidatorIdle /\ FnIdle

storeOthersUnchanged ==
    /\ UNCHANGED pipeVars /\ UNCHANGED shVars /\ UNCHANGED clVars
    /\ UNCHANGED logVars /\ UNCHANGED cnVars /\ UNCHANGED vaVars
    /\ UNCHANGED fnVars

\* one call save_artifact(obj)
SaveCall(obj, again) ==
    LET r == SaveArtifact(obj, artFiles) IN
    /\ saves < MaxSaves
    /\ saves' = saves + 1
    /\ artFiles' = r.fs
    /\ held' = [obj |-> r.obj,
                savedId |-> IF r.outcome = "ok" THEN r.id
                            ELSE IF again THEN held.savedId ELSE PyNone]
    /\ saveResult' = [outcome |-> r.outcome, id |-> r.id, input |-> obj,
                      before |-> artFiles, again |-> again,
                      prevId |-> IF again THEN held.savedId ELSE PyNone]
    /\ storeOthersUnchanged

\* the caller saves a mapping it has built
SaveNew == \E d \in StoreInputs : SaveCall(d, FALSE)

\* the caller saves the mapping it passed to the previous call once more
SaveAgain == saves >= 1 /\ SaveCall(held.obj, TRUE)

ArtifactStoreNext == SaveNew \/ SaveAgain

ArtifactStoreSpec == ArtifactStoreInit /\ [][ArtifactStoreNext]_vars

\* C17: save_artifact on a mapping whose artifact_id is given and differs
\* from the id computed from its content raises, and neither the directory
\* nor the caller's mapping is changed by the call.
C17_MismatchRefused ==
    LET supplied == DictGet(saveResult.input, ArtifactIdKey) IN
    (saveResult.outcome # "none" /\ supplied # PyNone
        /\ supplied # ComputeArtifactIdBytes(saveResult.input))
    => /\ saveResult.outcome = "ValueError_id"
       /\ artFiles = saveResult.before
       /\ held.obj = saveResult.input

\* a save with a foreign artifact_id was refused on a non-empty directory
C17_Witness ==
    /\ saveResult.outcome = "ValueError_id"
    /\ DictGet(saveResult.input, ArtifactIdKey) = ComputeArtifactIdBytes(<<>>)
    /\ IsStr(DictGet(saveResult.input, TypeKey))
    /\ DOMAIN artFiles # {}
    /\ artFiles = saveResult.before

\* C18: every stored file <Type>/<id>.json holds the canonical bytes of an
\* artifact of type <Type> whose computed id is <id>; a save never changes
\* a file that existed before it; and saving the mapping of a successful
\* save again returns the same id and leaves the directory as it was.
C18_StoredArtifactNeverChanges ==
    /\ \A q \in DOMAIN artFiles :
         LET a == JsonLoads(artFiles[q]) IN
         /\ DictGet(a, TypeKey) = q[1]
         /\ ComputeArtifactIdBytes(a) = q[2]
         /\ DictGet(a, ArtifactIdKey) = q[2]
         /\ Canonicalize(a) = artFiles[q]
    /\ \A q \in DOMAIN saveResult.before :
         q \in DOMAIN artFiles /\ artFiles[q] = saveResult.before[q]
    /\ (saveResult.again /\ saveResult.prevId # PyNone) =>
         /\ saveResult.outcome = "ok"
         /\ saveResult.id = saveResult.prevId
         /\ artFiles = saveResult.before

\* the mapping returned by a successful save, now carrying its id, was saved
\* again into a directory holding several artifacts
C18_Witness ==
    /\ saveResult.again /\ saveResult.outcome = "ok"
    /\ saveResult.id = saveResult.prevId
    /\ DictGet(saveResult.input, ArtifactIdKey) = saveResult.id
    /\ Cardinality(DOMAIN artFiles) >= 2
    /\ artFiles = saveResult.before

(***************************************************************************)
(* CanonSpec: compute_artifact_id applied to two mappings of equal content *)
(***************************************************************************)
\* the spellings of one content: the items in either order, the accented
\* key and the accented value precomposed or decomposed
Spellings(t) ==
    UNION { { t \o a, Reverse(t \o a) } : a \in AccentItems }
CanonPairs ==
    UNION { Spellings(t) \X Spellings(t) : t \in TypeItems }

CanonInit ==
    /\ canonPair \in CanonPairs
    /\ canonOut = <<>>
    /\ PipeIdle /\ ShadowIdle /\ ClassifyIdle /\ LogIdle /\ StoreIdle
    /\ ValidatorIdle /\ FnIdle

\* artifact_store.py:44-57 on each mapping of the pair
ComputeIds ==
    /\ canonOut = <<>>
    /\ canonOut' = <<ComputeArtifactIdBytes(canonPair[1]),
                     ComputeArtifactIdBytes(canonPair[2])>>
    /\ UNCHANGED canonPair
    /\ UNCHANGED pipeVars /\ UNCHANGED shVars /\ UNCHANGED clVars
    /\ UNCHANGED logVars /\ UNCHANGED stVars /\ UNCHANGED vaVars
    /\ UNCHANGED fnVars

CanonNext == ComputeIds

CanonSpec == CanonInit /\ [][CanonNext]_vars

\* the keys of a mapping, in insertion order
KeysOf(d) == [i \in DOMAIN d |-> d[i].key]

\* C19 (as stated): two artifacts that differ only in the order of their
\* keys or in the Unicode composition of a string, mapping keys included,
\* have the same computed artifact id.
C19_AsStated ==
    canonOut # <<>> => canonOut[1] = canonOut[2]

\* two mappings with the same items in the same order, whose only difference
\* is the composition form of one key, were given different ids
C19_Witness ==
    /\ canonOut # <<>> /\ canonOut[1] # canonOut[2]
    /\ Len(canonPair[1]) = 2 /\ Len(canonPair[2]) = 2
    /\ \A i \in 1 .. 2 : canonPair[1][i].val = canonPair[2][i].val
    /\ \A i \in 1 .. 2 : canonPair[1][i].key.base = canonPair[2][i].key.base
    /\ KeysOf(canonPair[1]) # KeysOf(canonPair[2])

(***************************************************************************)
(* ValidateSpec: assert_valid applied to one artifact                      *)
(***************************************************************************)
ValSpec     == SpecArtifact("seed-a", "sudoku-9x9")
ValComplete == CompleteArtifact("seed-a", ValSpec)
ValVerdict  == VerdictArtifact("seed-a", ValSpec.artifact_id, ValComplete.artifact_id)
ValBundle   ==
    BundleArtifact("seed-a", ValSpec.artifact_id, ValComplete.artifact_id,
                   ValVerdict.artifact_id)

\* a second run's artifacts, built on another Spec
ValSpecB     == SpecArtifact("seed-b", "sudoku-9x9")
ValCompleteB == CompleteArtifact("seed-b", ValSpecB)
ValVerdictB  ==
    VerdictArtifact("seed-b", ValSpecB.artifact_id, ValCompleteB.artifact_id)

\* bundles over the inputs of either run, carrying either Spec or none
ValBundles ==
    { Finalise([ValBundle EXCEPT !.spec_ref = sr, !.body.complete_ref = c,
                                 !.body.verdict_ref = v]) :
        sr \in {ValSpec.artifact_id, ValSpecB.artifact_id, NoId},
        c \in {ValComplete.artifact_id, ValCompleteB.artifact_id},
        v \in {ValVerdict.artifact_id, ValVerdictB.artifact_id} }

\* the artifacts handed to assert_valid: the pipeline's own, a grid whose
\* canonical_hash has the form the rulebook expects, and verdicts with any
\* combination of unique flag, cutoff and input references
ValArtifacts ==
    { ValSpec, ValComplete, ValVerdict, ValBundle,
      Finalise([ValComplete EXCEPT
                  !.body.canonical_hash = <<"sha256-", Sha256(ValComplete.body.grid)>>]) }
    \cup { Finalise([ValVerdict EXCEPT !.body.cutoff = c, !.body.candidate_ref = r,
                                       !.body.solved_ref = sr, !.body.unique = u]) :
             c \in {Null, "TIMEOUT", "BOGUS"},
             r \in {NoId, ValComplete.artifact_id},
             sr \in {NoId, ValComplete.artifact_id},
             u \in {"true", "false", Null} }
    \cup ValBundles

ValStores ==
    { {}, {ValSpec}, {ValSpec, ValComplete, ValVerdict},
      {ValSpec, ValComplete, ValVerdict, ValSpecB, ValCompleteB, ValVerdictB} }

ValInputs ==
    [a : ValArtifacts, expect_type : {"Spec", "CompleteGrid", "Verdict", "ExportBundle"},
     profile : {"dev", "ci", "prod"}, st : ValStores]

NoReport == [ok |-> TRUE, errors |-> {}, warnings |-> {}]

ValidateInit ==
    /\ valIn \in { i \in ValInputs :
                     \* a foreign expect_type is tried once per artifact
                     i.expect_type \in {i.a.type, "Verdict"} }
    /\ valOut = [raised |-> "pending", report |-> NoReport]
    /\ PipeIdle /\ ShadowIdle /\ ClassifyIdle /\ LogIdle /\ StoreIdle /\ CanonIdle
    /\ FnIdle

\* validator.py:255-272  assert_valid(artifact, expect_type, profile, store=store)
AssertValidCall ==
    /\ valOut.raised = "pending"
    /\ valOut' =
         [raised |-> IF AssertValid(valIn.a, valIn.expect_type, valIn.profile, valIn.st)
                     THEN "returned" ELSE "raised",
          report |-> Validate(valIn.a, valIn.expect_type, valIn.profile, valIn.st)]
    /\ UNCHANGED valIn
    /\ UNCHANGED pipeVars /\ UNCHANGED shVars /\ UNCHANGED clVars
    /\ UNCHANGED logVars /\ UNCHANGED stVars /\ UNCHANGED cnVars
    /\ UNCHANGED fnVars

ValidateNext == AssertValidCall

ValidateSpec == ValidateInit /\ [][ValidateNext]_vars

\* the severities of the issues found for the call, after the profile's
\* overrides
AdjustedSeverities ==
    { ApplyOverrides(valIn.profile, valIn.expect_type, i).severity :
        i \in StageIssues(valIn.a, valIn.expect_type, valIn.profile, valIn.st) }

C21_XorHolds ==
    (valOut.raised = "returned" /\ valIn.a.type = "Verdict") =>
        (valIn.a.body.candidate_ref # NoId) # (valIn.a.body.solved_ref # NoId)

\* the stored artifacts an ExportBundle's input references resolve to
ResolvedInputs(a, st) ==
    UNION { Load(st, ref) : ref \in {a.body.complete_ref, a.body.verdict_ref} }

RateAbsent == [set |-> "absent", v |-> 0]
RateBad    == [set |-> "bad", v |-> 0]
RateNum(k) == [set |-> "num", v |-> k]

\* router.py:108,115  max(0.0, min(1.0, value))
Clamp(k) == IF k < 0 THEN 0 ELSE IF k > RateDen THEN RateDen ELSE k

\* str.lower() on the profile names in use
Lower(profile) == IF profile = "CI" THEN "ci" ELSE profile

\* router.py:46-64  _extract_role_policy: the role's keys but by_profile,
\* updated with the block by_profile[profile] when there is one
ExtractRolePolicy(toml, profile) ==
    LET block == IF toml.by_profile.name = profile
                 THEN toml.by_profile ELSE [name |-> profile, impl |-> Absent, state |-> Absent]
    IN [impl |-> IF block.impl # Absent THEN block.impl ELSE toml.impl,
        state |-> IF block.state # Absent THEN block.state ELSE toml.state,
        sample_rate |-> toml.sample_rate,
        allow_fallback |-> toml.allow_fallback]

\* router.py:118-124  _apply_policy_defaults
ApplyPolicyDefaults(policy) ==
    [impl |-> IF policy.impl = Absent THEN "legacy" ELSE policy.impl,
     state |-> IF policy.state = Absent THEN "default" ELSE policy.state,
     sample_rate |-> IF policy.sample_rate.set = "absent"
                     THEN RateNum(0) ELSE policy.sample_rate,
     allow_fallback |-> IF policy.allow_fallback = Absent
                        THEN "true" ELSE policy.allow_fallback]

\* key in env and env[key] / env.get(key): present and not empty
Given(v) == v # Absent /\ v # ""

\* router.py:67-92 with the environment applied after the CLI variables
ResolveImplEnvLast(policy, envv, cli) ==
    LET impl0  == IF Given(cli.impl) THEN cli.impl ELSE policy.impl
        state0 == IF Given(cli.state) THEN cli.state ELSE policy.state
    IN [impl  |-> IF Given(envv.impl) THEN envv.impl ELSE impl0,
        state |-> IF Given(envv.state) THEN envv.state ELSE state0,
        decision_source |->
            IF Given(envv.impl) \/ Given(envv.state) THEN "env"
            ELSE IF Given(cli.impl) \/ Given(cli.state) THEN "cli"
            ELSE "config"]

\* router.py:67-92  _resolve_impl: the policy, then PUZZLE_<ROLE>_*, then
\* CLI_PUZZLE_<ROLE>_*
ResolveImpl(policy, envv, cli) ==
    LET impl1  == IF Given(envv.impl) THEN envv.impl ELSE policy.impl
        state1 == IF Given(envv.state) THEN envv.state ELSE policy.state
    IN [impl  |-> IF Given(cli.impl) THEN cli.impl ELSE impl1,
        state |-> IF Given(cli.state) THEN cli.state ELSE state1,
        decision_source |->
            IF Given(cli.impl) \/ Given(cli.state) THEN "cli"
            ELSE IF Given(envv.impl) \/ Given(envv.state) THEN "env"
            ELSE "config"]

\* router.py:95-115  _resolve_sample_rate: the first of CLI, environment
\* that float() accepts, else the policy's value (0.0 when float() refuses)
ResolveSampleRate(policy, envv, cli) ==
    IF cli.sample_rate.set = "num" THEN Clamp(cli.sample_rate.v)
    ELSE IF envv.sample_rate.set = "num" THEN Clamp(envv.sample_rate.v)
    ELSE IF policy.sample_rate.set = "num" THEN Clamp(policy.sample_rate.v)
    ELSE 0

\* router.py:140  the states the CI profile refuses
CiForbidsNothing(profile, state) == FALSE
CiForbids(profile, state) ==
    Lower(profile) = "ci" /\ state \in {"shadow", "canary"}

\* router.py:152  a missing implementation may be replaced by legacy
CanFallBackAlways(allow_fallback, impl) == TRUE
CanFallBack(allow_fallback, impl) == allow_fallback /\ impl # "legacy"

RouterErrorResult ==
    [outcome |-> "RouterError", impl_id |-> "", state |-> "",
     decision_source |-> "", sample_rate |-> 0, allow_fallback |-> FALSE,
     fallback_used |-> FALSE]

\* router.py:135-190  resolve, for a supported role of a registered puzzle.
\* dirs[impl] is "absent", "dir" (a directory without __init__.py) or
\* "package"
RouterResolve(in) ==
    LET policy == ApplyPolicyDefaults(ExtractRolePolicy(in.toml, in.profile))
        chosen == ResolveImpl(policy, in.env, in.cli)
        allow_fallback == policy.allow_fallback # "false"
        sample_rate == ResolveSampleRate(policy, in.env, in.cli)
        Dir(impl) == IF impl \in DOMAIN in.dirs THEN in.dirs[impl] ELSE "absent"
        Found(impl, fallback_used, decision_source) ==
            IF Dir(impl) # "package" THEN RouterErrorResult
            ELSE [outcome |-> "ok", impl_id |-> impl, state |-> chosen.state,
                  decision_source |-> decision_source,
                  sample_rate |-> sample_rate,
                  allow_fallback |-> allow_fallback,
                  fallback_used |-> fallback_used]
    IN IF CiForbids(in.profile, chosen.state) THEN RouterErrorResult
       ELSE IF Dir(chosen.impl) # "absent"
       THEN Found(chosen.impl, FALSE, chosen.decision_source)
       ELSE IF CanFallBack(allow_fallback, chosen.impl) /\ Dir("legacy") # "absent"
       THEN Found("legacy", TRUE, "fallback")
       ELSE RouterErrorResult

\* the requests: each layer leaves a field out or sets it to a value of its
\* own, so that the layer a returned value came from can be told
RouterTomls ==
    [impl : {Absent, "novus"}, state : {Absent, "shadow"},
     sample_rate : {RateAbsent, RateBad, RateNum(1)},
     allow_fallback : {Absent, "false"},
     by_profile : [name : {"dev", "ci"}, impl : {Absent, "legacy"},
                   state : {Absent, "canary"}]]
RouterEnvs ==
    [impl : {Absent, "", "ghost", "novus"}, state : {Absent, "", "shadow"},
     sample_rate : {RateAbsent, RateBad, RateNum(2)}]
RouterClis ==
    [impl : {Absent, "", "legacy", "ghost"},
     state : {Absent, "", "canary", "default"},
     sample_rate : {RateAbsent, RateBad, RateNum(3), RateNum(RateDen + 1)}]
RouterDirs ==
    { d \in [{"legacy", "novus"} -> {"absent", "dir", "package"}] :
        d["novus"] = "dir" => d["legacy"] = "package" }

RouterInputs ==
    { in \in [toml : RouterTomls, env : RouterEnvs, cli : RouterClis,
              profile : {"dev", "ci", "CI"}, dirs : RouterDirs] :
        \* an empty by_profile block is listed under one name only
        /\ (in.toml.by_profile.impl = Absent /\ in.toml.by_profile.state = Absent
              => in.toml.by_profile.name = "ci")
        \* the sample rate is resolved apart from impl and state: its layers
        \* vary while those of impl and state are empty, and conversely
        /\ \/ /\ in.toml.sample_rate = RateAbsent
              /\ in.env.sample_rate = RateAbsent
              /\ in.cli.sample_rate = RateAbsent
           \/ /\ in.toml.impl = Absent /\ in.toml.state = Absent
              /\ in.toml.by_profile.impl = Absent
              /\ in.env.impl = Absent /\ in.env.state = Absent
              /\ in.cli.impl = Absent /\ in.cli.state = Absent
              /\ in.dirs["legacy"] = "package" /\ in.dirs["novus"] = "package" }

RouterInit ==
    /\ rtIn \in RouterInputs
    /\ rtOut = [RouterErrorResult EXCEPT !.outcome = "pending"]
    /\ polIn = "idle" /\ polOut = "idle" /\ hitIn = "idle" /\ hitOut = "idle"
    /\ PipeIdle /\ ShadowIdle /\ ClassifyIdle
    /\ LogIdle /\ StoreIdle /\ CanonIdle /\ ValidatorIdle

fnOthersUnchanged ==
    /\ UNCHANGED pipeVars /\ UNCHANGED shVars /\ UNCHANGED clVars
    /\ UNCHANGED logVars /\ UNCHANGED stVars /\ UNCHANGED cnVars
    /\ UNCHANGED vaVars

\* router.py:127-190  resolve(puzzle_kind, role, profile, env)
ResolveCall ==
    /\ rtOut.outcome = "pending"
    /\ rtOut' = RouterResolve(rtIn)
    /\ UNCHANGED <<rtIn, polIn, polOut, hitIn, hitOut>>
    /\ fnOthersUnchanged

RouterNext == ResolveCall

RouterSpec == RouterInit /\ [][RouterNext]_vars

\* the layers of one request in rising order: built-in default, the role's
\* TOML keys, its by_profile block for the profile, environment, CLI
ProfileBlock(in) ==
    IF in.toml.by_profile.name = in.profile THEN in.toml.by_profile
    ELSE [name |-> in.profile, impl |-> Absent, state |-> Absent]
ImplLayers(in) ==
    <<"legacy", in.toml.impl, ProfileBlock(in).impl, in.env.impl, in.cli.impl>>
StateLayers(in) ==
    <<"default", in.toml.state, ProfileBlock(in).state, in.env.state, in.cli.state>>
RateLayers(in) ==
    <<RateNum(0), in.toml.sample_rate, in.env.sample_rate, in.cli.sample_rate>>
HighestGiven(layers) ==
    layers[CHOOSE i \in 1..Len(layers) :
              /\ Given(layers[i])
              /\ \A j \in (i + 1)..Len(layers) : ~Given(layers[j])]
HighestRate(layers) ==
    layers[CHOOSE i \in 1..Len(layers) :
              /\ layers[i].set = "num"
              /\ \A j \in (i + 1)..Len(layers) : layers[j].set # "num"]

C23_RateWitness ==
    /\ rtOut.outcome = "ok"
    /\ rtIn.toml.sample_rate = RateNum(1) /\ rtIn.env.sample_rate = RateNum(2)
    /\ rtIn.cli.sample_rate = RateBad /\ rtOut.sample_rate = 2

\* C24: under the profile ci (in any letter case) resolve returns no module
\* whose state is shadow or canary; a request whose layers give such a
\* state ends in a RouterError, whichever layer gave it.
C24_CiRefusesShadowAndCanary ==
    (rtOut.outcome # "pending" /\ Lower(rtIn.profile) = "ci") =>
        /\ (rtOut.outcome = "ok" => rtOut.state \notin {"shadow", "canary"})
        /\ (HighestGiven(StateLayers(rtIn)) \in {"shadow", "canary"}
              => rtOut.outcome = "RouterError")

C24_Witness ==
    /\ rtOut.outcome = "RouterError" /\ rtIn.profile = "ci"
    /\ rtIn.toml.state = Absent /\ rtIn.toml.by_profile.state = Absent
    /\ rtIn.env.state = Absent /\ rtIn.cli.state = "canary"
    /\ rtIn.cli.impl = Absent /\ rtIn.env.impl = Absent /\ rtIn.toml.impl = Absent
    /\ rtIn.dirs["legacy"] = "package"

\* the same state set by the by_profile block of the TOML policy
C24_TomlWitness ==
    /\ rtOut.outcome = "RouterError" /\ rtIn.profile = "ci"
    /\ rtIn.toml.by_profile = [name |-> "ci", impl |-> Absent, state |-> "canary"]
    /\ rtIn.env.state = Absent /\ rtIn.cli.state = Absent
    /\ rtIn.cli.impl = Absent /\ rtIn.env.impl = Absent /\ rtIn.toml.impl = Absent
    /\ rtIn.dirs["legacy"] = "package"

\* the implementation a request asks for, what is on disk under a name, and
\* whether the request passes the CI test that comes before the directories
Requested(in) == HighestGiven(ImplLayers(in))
OnDisk(in, impl) == IF impl \in DOMAIN in.dirs THEN in.dirs[impl] ELSE "absent"
AllowFallback(in) == in.toml.allow_fallback # "false"
PastCiTest(in) ==
    ~(Lower(in.profile) = "ci"
        /\ HighestGiven(StateLayers(in)) \in {"shadow", "canary"})
RequestedAbsent ==
    /\ rtOut.outcome # "pending" /\ PastCiTest(rtIn)
    /\ OnDisk(rtIn, Requested(rtIn)) = "absent"

C25_NoLegacyWitness ==
    /\ RequestedAbsent /\ Requested(rtIn) = "novus" /\ AllowFallback(rtIn)
    /\ OnDisk(rtIn, "legacy") = "absent"
    /\ rtOut.outcome = "RouterError"

(***************************************************************************)
(* PolicySpec: ports/solver_port.py, _compute_shadow_settings applied to   *)
(* one request                                                             *)
(*                                                                         *)
(* A raw value is a record [k, ...]: no key, a str, a str spelling a       *)
(* decimal ("decstr") or an integer ("intstr"), a bool, an int, a float or *)
(* a Decimal.  Sample rates are counted in quarters: 1 is 0.25, 4 is 1.0.  *)
(***************************************************************************)
NoRaw == [k |-> "absent"]
StrRaw(s) == [k |-> "str", s |-> s]
DecStr(n) == [k |-> "decstr", n |-> n]
IntStr(n) == [k |-> "intstr", n |-> n]
BoolRaw(b) == [k |-> "bool", b |-> b]
IntRaw(n) == [k |-> "int", n |-> n]
FloatRaw(n) == [k |-> "float", n |-> n]
DecimalRaw(n) == [k |-> "decimal", n |-> n]
IsStrRaw(raw) == raw.k \in {"str", "decstr", "intstr"}

NoneParsed == [ok |-> FALSE]
Parsed(v) == [ok |-> TRUE, v |-> v]

\* value.strip().lower() on the texts in use
StripLower(s) ==
    IF s = " ON " THEN "on" ELSE IF s = "True" THEN "true" ELSE s

\* solver_port.py:62-71  _parse_bool
ParseBool(raw) ==
    IF raw.k = "bool" THEN Parsed(raw.b)
    ELSE IF raw.k = "str" /\ StripLower(raw.s) \in {"1", "true", "yes", "on"}
    THEN Parsed(TRUE)
    ELSE IF raw.k = "str" /\ StripLower(raw.s) \in {"0", "false", "no", "off"}
    THEN Parsed(FALSE)
    ELSE IF raw.k = "intstr" /\ raw.n \in {0, 1} THEN Parsed(raw.n = 1)
    ELSE NoneParsed

\* solver_port.py:74-97  _parse_decimal: a Decimal, a str matching
\* -?digits(.1-6 digits)?, or an int or float (with a warning)
ParseDecimal(raw) ==
    IF raw.k \in {"decimal", "decstr", "intstr", "int", "float"}
    THEN Parsed(raw.n) ELSE NoneParsed

\* solver_port.py:100-108  _parse_int
ParseInt(raw) ==
    IF raw.k \in {"int", "intstr"} THEN Parsed(raw.n)
    ELSE IF raw.k = "bool" THEN Parsed(IF raw.b THEN 1 ELSE 0)
    ELSE NoneParsed

\* solver_port.py:111-122  _format_decimal: the text of a rate
FormatDecimal(n) == <<"text", n>>

\* solver_port.py:125-130  _clamp_decimal
ClampDecimal(n) == IF n < 0 THEN 0 ELSE IF n > 4 THEN 4 ELSE n

\* solver_port.py:42-47,134  _PROFILE_SAMPLE_DEFAULTS.get(profile.lower(), 0.0)
ProfileSampleDefault(profile) ==
    IF profile \in {"dev", "DEV", "test"} THEN 1
    ELSE IF profile = "pilot" THEN 4
    ELSE 0

\* solver_port.py:133-149  _shadow_defaults
ShadowDefaults(profile, resolved) ==
    LET base_rate == IF resolved.sample_rate.set = "num"
                     THEN resolved.sample_rate.v
                     ELSE ProfileSampleDefault(profile)
    IN [enabled |-> FALSE,
        sample_rate |-> ClampDecimal(base_rate),
        sample_rate_str |-> FormatDecimal(ClampDecimal(base_rate)),
        primary |-> resolved.impl_id,
        secondary |-> "novus",
        log_mismatch |-> TRUE,
        budget_ms_p95 |-> 50,
        hash_salt |-> "dev-seed",
        sticky |-> FALSE]

ShadowFields ==
    {"enabled", "sample_rate", "primary", "secondary", "log_mismatch",
     "budget_ms_p95", "hash_salt", "sticky"}
NoOverrides == [f \in ShadowFields |-> NoRaw]

\* solver_port.py:152-207  _apply_shadow_overrides: a key whose value parses
\* replaces the setting, any other leaves it
ApplyShadowOverrides(settings, overrides) ==
    LET Flag(f) == IF ParseBool(overrides[f]).ok
                   THEN ParseBool(overrides[f]).v ELSE settings[f]
        Name(f) == IF IsStrRaw(overrides[f]) /\ overrides[f] # StrRaw("")
                   THEN overrides[f].s ELSE settings[f]
        rate == IF ParseDecimal(overrides["sample_rate"]).ok
                THEN ClampDecimal(ParseDecimal(overrides["sample_rate"]).v)
                ELSE settings.sample_rate
        budget == IF ParseInt(overrides["budget_ms_p95"]).ok
                     /\ ParseInt(overrides["budget_ms_p95"]).v >= 0
                  THEN ParseInt(overrides["budget_ms_p95"]).v
                  ELSE settings.budget_ms_p95
    IN [enabled |-> Flag("enabled"),
        sample_rate |-> rate,
        sample_rate_str |-> IF ParseDecimal(overrides["sample_rate"]).ok
                            THEN FormatDecimal(rate) ELSE settings.sample_rate_str,
        primary |-> Name("primary"),
        secondary |-> Name("secondary"),
        log_mismatch |-> Flag("log_mismatch"),
        budget_ms_p95 |-> budget,
        hash_salt |-> IF IsStrRaw(overrides["hash_salt"])
                      THEN overrides["hash_salt"].s ELSE settings.hash_salt,
        sticky |-> Flag("sticky")]

\* solver_port.py:210-251  _shadow_env_overrides: per field the first of
\* PUZZLE_SHADOW_<F>, SHADOW_<F> that is in the environment
ShadowEnvOverrides(in) ==
    [f \in ShadowFields |->
        IF in.env_puzzle[f] # NoRaw THEN in.env_puzzle[f] ELSE in.env_plain[f]]

\* solver_port.py:254-269  _shadow_cli_overrides: the CLI_SHADOW_<F> in the
\* environment
ShadowCliOverrides(in) == in.cli

\* solver_port.py:272-276  _shadow_feature_overrides: the [shadow] table of
\* config/features.toml
ShadowFeatureOverrides(in) == in.toml

\* solver_port.py:279-302  _compute_shadow_settings
ComputeShadowSettings(in) ==
    LET module_override ==
            IF in.resolved.sample_rate.set = "num"
            THEN [NoOverrides EXCEPT !["sample_rate"] = DecimalRaw(in.resolved.sample_rate.v)]
            ELSE NoOverrides
        s0 == ShadowDefaults(in.profile, in.resolved)
        s1 == ApplyShadowOverrides(s0, module_override)
        s2 == ApplyShadowOverrides(s1, ShadowFeatureOverrides(in))
        s3 == ApplyShadowOverrides(s2, ShadowEnvOverrides(in))
        s4 == ApplyShadowOverrides(s3, ShadowCliOverrides(in))
        s5 == [s4 EXCEPT !.primary = in.resolved.impl_id]
    IN IF s5.enabled THEN s5
       ELSE [s5 EXCEPT !.sample_rate = 0, !.sample_rate_str = FormatDecimal(0)]

\* what each layer may hold for a field: nothing, values that parse (each
\* layer its own) and values that do not
TomlValues(f) ==
    CASE f = "enabled" -> {NoRaw, BoolRaw(TRUE), IntRaw(1)}
      [] f = "sample_rate" -> {NoRaw, DecStr(1), FloatRaw(3), StrRaw("high")}
      [] f = "primary" -> {NoRaw, StrRaw("novus")}
      [] f = "secondary" -> {NoRaw, StrRaw("toml-impl"), StrRaw("")}
      [] f = "log_mismatch" -> {NoRaw, BoolRaw(FALSE), StrRaw("maybe")}
      [] f = "budget_ms_p95" -> {NoRaw, IntRaw(10), IntRaw(-1)}
      [] f = "hash_salt" -> {NoRaw, StrRaw("toml-salt"), IntRaw(7)}
      [] f = "sticky" -> {NoRaw, BoolRaw(TRUE), StrRaw("maybe")}
EnvValues(f) ==
    CASE f = "enabled" -> {NoRaw, StrRaw(" ON "), StrRaw("0"), StrRaw("maybe")}
      [] f = "sample_rate" -> {NoRaw, DecStr(2), DecStr(6), StrRaw("0.1234567")}
      [] f = "primary" -> {NoRaw, StrRaw("ghost")}
      [] f = "secondary" -> {NoRaw, StrRaw("env-impl"), StrRaw("")}
      [] f = "log_mismatch" -> {NoRaw, StrRaw("off"), StrRaw("True"), StrRaw("maybe")}
      [] f = "budget_ms_p95" -> {NoRaw, IntStr(20), IntStr(-1), StrRaw("fast")}
      [] f = "hash_salt" -> {NoRaw, StrRaw("env-salt"), StrRaw("")}
      [] f = "sticky" -> {NoRaw, StrRaw("yes"), StrRaw("no"), StrRaw("maybe")}
EnvPlainValues(f) ==
    CASE f = "enabled" -> {NoRaw, StrRaw("1")}
      [] f = "sample_rate" -> {NoRaw, DecStr(4)}
      [] f = "primary" -> {NoRaw}
      [] f = "secondary" -> {NoRaw, StrRaw("plain-impl")}
      [] f = "log_mismatch" -> {NoRaw, StrRaw("0")}
      [] f = "budget_ms_p95" -> {NoRaw, IntStr(30)}
      [] f = "hash_salt" -> {NoRaw, StrRaw("plain-salt")}
      [] f = "sticky" -> {NoRaw, StrRaw("on")}
CliValues(f) ==
    CASE f = "enabled" -> {NoRaw, StrRaw("1"), StrRaw("off"), StrRaw("maybe")}
      [] f = "sample_rate" -> {NoRaw, DecStr(3), DecStr(-1), StrRaw("1e-1")}
      [] f = "primary" -> {NoRaw, StrRaw("ghost")}
      [] f = "secondary" -> {NoRaw, StrRaw("cli-impl"), StrRaw("")}
      [] f = "log_mismatch" -> {NoRaw, StrRaw("no"), StrRaw("yes"), StrRaw("maybe")}
      [] f = "budget_ms_p95" -> {NoRaw, IntStr(40), IntStr(0), StrRaw("fast")}
      [] f = "hash_salt" -> {NoRaw, StrRaw("cli-salt"), StrRaw("")}
      [] f = "sticky" -> {NoRaw, StrRaw("1"), StrRaw("0"), StrRaw("maybe")}

PolicyPending == [enabled |-> FALSE, pending |-> TRUE]

\* the requests: the fields are resolved one by one, so one field at a time
\* is given in the four places, the others in none; with sample_rate the
\* master switch is set by the CLI or left out
PolicyInit ==
    /\ \E f \in ShadowFields :
         \E t \in TomlValues(f), ep \in EnvValues(f), es \in EnvPlainValues(f),
            c \in CliValues(f), on \in {NoRaw, StrRaw("1")},
            profile \in {"dev", "DEV", "pilot", "prod"},
            impl \in {"legacy", "novus"}, r \in {0, 2} :
              /\ (f # "sample_rate" => on = NoRaw)
              /\ polIn = [profile |-> profile,
                          resolved |-> [impl_id |-> impl, sample_rate |-> RateNum(r)],
                          toml |-> [NoOverrides EXCEPT ![f] = t],
                          env_puzzle |-> [NoOverrides EXCEPT ![f] = ep],
                          env_plain |-> [NoOverrides EXCEPT ![f] = es],
                          cli |-> [[NoOverrides EXCEPT !["enabled"] = on]
                                      EXCEPT ![f] = c]]
    /\ polOut = PolicyPending
    /\ rtIn = "idle" /\ rtOut = "idle" /\ hitIn = "idle" /\ hitOut = "idle"
    /\ PipeIdle /\ ShadowIdle /\ ClassifyIdle
    /\ LogIdle /\ StoreIdle /\ CanonIdle /\ ValidatorIdle

\* solver_port.py:317-318  check_uniqueness computes the policy of the call
ComputeShadowSettingsCall ==
    /\ polOut = PolicyPending
    /\ polOut' = ComputeShadowSettings(polIn)
    /\ UNCHANGED <<rtIn, rtOut, polIn, hitIn, hitOut>>
    /\ fnOthersUnchanged

PolicyNext == ComputeShadowSettingsCall

PolicySpec == PolicyInit /\ [][PolicyNext]_vars

\* the layers above the built-in default in rising order (TOML, environment,
\* CLI), which of their values are valid for a field, and what they stand for
PolicyDone == "pending" \notin DOMAIN polOut
PolicyLayers(in, f) ==
    <<ShadowFeatureOverrides(in)[f], ShadowEnvOverrides(in)[f], ShadowCliOverrides(in)[f]>>
ValidFor(f, raw) ==
    CASE f \in {"enabled", "log_mismatch", "sticky"} -> ParseBool(raw).ok
      [] f = "sample_rate" -> ParseDecimal(raw).ok
      [] f = "secondary" -> IsStrRaw(raw) /\ raw # StrRaw("")
      [] f = "budget_ms_p95" -> ParseInt(raw).ok /\ ParseInt(raw).v >= 0
      [] f = "hash_salt" -> IsStrRaw(raw)
ValueFor(f, raw) ==
    CASE f \in {"enabled", "log_mismatch", "sticky"} -> ParseBool(raw).v
      [] f = "sample_rate" -> ClampDecimal(ParseDecimal(raw).v)
      [] f = "budget_ms_p95" -> ParseInt(raw).v
      [] f \in {"secondary", "hash_salt"} -> raw.s
BuiltIn(f, rate) ==
    CASE f \in {"enabled", "sticky"} -> FALSE
      [] f = "log_mismatch" -> TRUE
      [] f = "sample_rate" -> rate
      [] f = "secondary" -> "novus"
      [] f = "budget_ms_p95" -> 50
      [] f = "hash_salt" -> "dev-seed"
HighestValid(in, f, rate) ==
    LET layers == PolicyLayers(in, f)
        valid == {i \in 1..3 : ValidFor(f, layers[i])}
    IN IF valid = {} THEN BuiltIn(f, rate)
       ELSE ValueFor(f, layers[CHOOSE i \in valid : \A j \in valid : j <= i])
PolicyFields ==
    {"enabled", "sample_rate", "secondary", "log_mismatch", "budget_ms_p95",
     "hash_salt", "sticky"}

\* C26 as the specification states it: every field of the effective policy
\* has the value of the highest layer that gives a valid one, the lowest
\* layer of sample_rate being the profile default (dev 0.25, test 0.25,
\* pilot 1.0, prod 0.0).
C26_AsStated ==
    PolicyDone =>
        \A f \in PolicyFields :
            polOut[f] = HighestValid(polIn, f, ProfileSampleDefault(polIn.profile))

\* the same for a policy that is switched on only
C26_AsStatedWhenEnabled ==
    (PolicyDone /\ polOut.enabled) =>
        polOut.sample_rate
            = HighestValid(polIn, "sample_rate", ProfileSampleDefault(polIn.profile))

\* what the code does: the lowest layer of sample_rate is the rate the
\* router resolved for the solver, the rate of a policy that is switched off
\* is zero, and every other field follows the precedence
C26_PrecedenceOverRouterRate ==
    PolicyDone =>
        /\ \A f \in PolicyFields \ {"sample_rate"} :
              polOut[f] = HighestValid(polIn, f, 0)
        /\ polOut.sample_rate
              = IF polOut.enabled
                THEN HighestValid(polIn, "sample_rate", polIn.resolved.sample_rate.v)
                ELSE 0
        /\ polOut.primary = polIn.resolved.impl_id

\* the policy is switched on under the profile pilot, no layer gives a
\* sample rate, and the effective rate is 0 where the profile default is 1.0
C26_Witness ==
    /\ PolicyDone /\ polOut.enabled /\ polIn.profile = "pilot"
    /\ \A i \in 1..3 : PolicyLayers(polIn, "sample_rate")[i] = NoRaw
    /\ polIn.resolved.sample_rate = RateNum(0)
    /\ polOut.sample_rate = 0

\* an invalid CLI value leaves the environment's, which wins over the TOML's
C26_InvalidLeavesLowerWitness ==
    /\ PolicyDone
    /\ polIn.toml["budget_ms_p95"] = IntRaw(10)
    /\ polIn.env_puzzle["budget_ms_p95"] = IntStr(20)
    /\ polIn.cli["budget_ms_p95"] = StrRaw("fast")
    /\ polOut.budget_ms_p95 = 20

(***************************************************************************)
(* SamplerSpec: orchestrator/sampling.py, hit called twice                 *)
(*                                                                         *)
(* A str is [chars |-> its characters], so that joining is concatenation;  *)
(* SHA-256 is a function from materials to the u64 of its first 8 bytes,   *)
(* fixed through a behaviour and arbitrary otherwise.                      *)
(***************************************************************************)
Text(chars) == [chars |-> chars]

\* value or ""
OrEmpty(v) == IF v = PyNone THEN <<>> ELSE v.chars

\* sampling.py:11-16 with the run id joined in for a sticky policy too
MaterialiseWithRunId(hash_salt, run_id, puzzle_digest, sticky) ==
    OrEmpty(hash_salt) \o run_id.chars
        \o <<"sudoku">> \o <<"shadow">> \o OrEmpty(puzzle_digest)

\* sampling.py:11-16  _materialise
Materialise(hash_salt, run_id, puzzle_digest, sticky) ==
    OrEmpty(hash_salt)
        \o (IF ~sticky THEN run_id.chars ELSE <<>>)
        \o <<"sudoku">> \o <<"shadow">> \o OrEmpty(puzzle_digest)

\* sampling.py:19-47  hit
Hit(sha, hash_salt, run_id, puzzle_digest, rate, sticky) ==
    IF rate <= 0 THEN FALSE
    ELSE IF rate >= RateDen THEN TRUE
    ELSE SampleHit(rate, sha[Materialise(hash_salt, run_id, puzzle_digest, sticky)])

HitSalts == {PyNone, Text(<<>>), Text(<<"s">>)}
HitRunIds == {Text(<<"run-a">>), Text(<<"run-b">>)}
HitDigests == {PyNone, Text(<<"p">>)}
HitRates == (0 - 1)..(RateDen + 1)

\* the byte strings SHA-256 may be asked about in a request: salt, nothing
\* or one of the run ids, "sudoku", "shadow", digest
HitMaterials(in) ==
    { OrEmpty(in.hash_salt) \o mid \o <<"sudoku">> \o <<"shadow">>
          \o OrEmpty(in.puzzle_digest) :
        mid \in {<<>>, in.run_a.chars, in.run_b.chars} }

SamplerInit ==
    /\ \E hash_salt \in HitSalts, run_a \in HitRunIds, run_b \in HitRunIds,
          puzzle_digest \in HitDigests, rate \in HitRates, sticky \in BOOLEAN :
         LET in == [hash_salt |-> hash_salt, run_a |-> run_a, run_b |-> run_b,
                    puzzle_digest |-> puzzle_digest, rate |-> rate,
                    sticky |-> sticky]
         IN \E sha \in [HitMaterials(in) -> 0..(U64Space - 1)] :
               hitIn = [in |-> in, sha |-> sha]
    /\ hitOut = [a |-> "pending", b |-> "pending"]
    /\ rtIn = "idle" /\ rtOut = "idle" /\ polIn = "idle" /\ polOut = "idle"
    /\ PipeIdle /\ ShadowIdle /\ ClassifyIdle
    /\ LogIdle /\ StoreIdle /\ CanonIdle /\ ValidatorIdle

HitResult(run_id) ==
    IF Hit(hitIn.sha, hitIn.in.hash_salt, run_id, hitIn.in.puzzle_digest,
           hitIn.in.rate, hitIn.in.sticky)
    THEN "true" ELSE "false"

\* sampling.py:19-47  hit(hash_salt, run_a, puzzle_digest, rate, sticky=sticky)
HitCallA ==
    /\ hitOut.a = "pending"
    /\ hitOut' = [hitOut EXCEPT !.a = HitResult(hitIn.in.run_a)]
    /\ UNCHANGED <<rtIn, rtOut, polIn, polOut, hitIn>>
    /\ fnOthersUnchanged

\* sampling.py:19-47  hit(hash_salt, run_b, puzzle_digest, rate, sticky=sticky)
HitCallB ==
    /\ hitOut.b = "pending"
    /\ hitOut' = [hitOut EXCEPT !.b = HitResult(hitIn.in.run_b)]
    /\ UNCHANGED <<rtIn, rtOut, polIn, polOut, hitIn>>
    /\ fnOthersUnchanged

SamplerNext == HitCallA \/ HitCallB

SamplerSpec == SamplerInit /\ [][SamplerNext]_vars

\* the material the specification names for a call: salt, the run id unless
\* the policy is sticky, "sudoku", "shadow", the puzzle digest
C27_Material(run_id) ==
    LET salt == IF hitIn.in.hash_salt = PyNone THEN <<>> ELSE hitIn.in.hash_salt.chars
        digest == IF hitIn.in.puzzle_digest = PyNone THEN <<>> ELSE hitIn.in.puzzle_digest.chars
    IN IF hitIn.in.sticky
       THEN salt \o <<"sudoku", "shadow">> \o digest
       ELSE salt \o run_id.chars \o <<"sudoku", "shadow">> \o digest

\* u64 < floor(rate * 2^64), with rate = k / RateDen and U64Space for 2^64
C27_Below(run_id) ==
    (hitIn.sha[C27_Material(run_id)] + 1) * RateDen <= hitIn.in.rate * U64Space

C27_Expected(run_id) ==
    IF hitIn.in.rate <= 0 THEN "false"
    ELSE IF hitIn.in.rate >= RateDen THEN "true"
    ELSE IF C27_Below(run_id) THEN "true" ELSE "false"

\* C27: hit is false for a rate <= 0 and true for a rate >= 1; in between it
\* is true exactly when the u64 of the first 8 bytes of the SHA-256 of the
\* material is strictly below floor(rate * 2^64); two calls with the same
\* arguments agree, and under a sticky policy so do two calls that differ in
\* the run id only.
C27_HitIsThresholdTest ==
    /\ hitOut.a # "pending" => hitOut.a = C27_Expected(hitIn.in.run_a)
    /\ hitOut.b # "pending" => hitOut.b = C27_Expected(hitIn.in.run_b)
    /\ (hitOut.a # "pending" /\ hitOut.b # "pending"
          /\ (hitIn.in.sticky \/ hitIn.in.run_a = hitIn.in.run_b))
            => hitOut.a = hitOut.b

\* a sticky policy, two run ids whose non-sticky digests differ across the
\* threshold, and the same decision for both
C27_Witness ==
    /\ hitIn.in.sticky /\ hitIn.in.run_a # hitIn.in.run_b
    /\ hitIn.in.rate = RateDen \div 2
    /\ hitIn.sha[MaterialiseWithRunId(hitIn.in.hash_salt, hitIn.in.run_a,
                                      hitIn.in.puzzle_digest, FALSE)] = 0
    /\ hitIn.sha[MaterialiseWithRunId(hitIn.in.hash_salt, hitIn.in.run_b,
                                      hitIn.in.puzzle_digest, FALSE)] = U64Space - 1
    /\ hitOut.a = "true" /\ hitOut.b = "true"

\* the u64 exactly at the threshold does not hit
C27_AtThresholdWitness ==
    /\ ~hitIn.in.sticky /\ hitIn.in.rate = RateDen \div 2
    /\ hitIn.sha[C27_Material(hitIn.in.run_a)] * RateDen = hitIn.in.rate * U64Space
    /\ hitOut.a = "false"

(***************************************************************************)
(* CounterpartSpec: the solver the pipeline runs (check_uniqueness) and    *)
(* the baseline a sampled shadow check runs (_resolve_counterpart), both   *)
(* resolved by the router from the same environment                        *)
(***************************************************************************)
NoModule == [RouterErrorResult EXCEPT !.outcome = "pending"]

\* shadow_compare.py:492-505  _resolve_counterpart: the environment with
\* PUZZLE_SOLVER_IMPL set to the other of legacy and novus, and
\* PUZZLE_SOLVER_STATE set to shadow unless present, resolved by the router
ResolveCounterpart(primary, in) ==
    LET counterpart_impl == IF primary.impl_id # "legacy" THEN "legacy" ELSE "novus"
        env_map == [in.env EXCEPT
                       !.impl = counterpart_impl,
                       !.state = IF in.env.state = Absent THEN "shadow" ELSE @]
    IN RouterResolve([in EXCEPT !.env = env_map])

\* the requests: the solver role is configured by the environment and the
\* CLI; secondary is the policy's field of that name
CounterpartInputs ==
    [toml : [impl : {Absent}, state : {Absent}, sample_rate : {RateAbsent},
             allow_fallback : {Absent, "false"},
             by_profile : {[name |-> "ci", impl |-> Absent, state |-> Absent]}],
     env : [impl : {Absent, "legacy", "novus"}, state : {Absent, "default"},
            sample_rate : {RateAbsent}],
     cli : [impl : {Absent, "", "legacy", "novus"}, state : {Absent},
            sample_rate : {RateAbsent}],
     profile : {"dev", "ci"},
     dirs : [{"legacy", "novus"} -> {"absent", "package"}],
     secondary : {"novus", "legacy"}]

CounterpartInit ==
    /\ rtIn \in CounterpartInputs
    /\ rtOut = [primary |-> NoModule, baseline |-> NoModule]
    /\ polIn = "idle" /\ polOut = "idle" /\ hitIn = "idle" /\ hitOut = "idle"
    /\ PipeIdle /\ ShadowIdle /\ ClassifyIdle
    /\ LogIdle /\ StoreIdle /\ CanonIdle /\ ValidatorIdle

\* solver_port.py:316-317  check_uniqueness resolves the solver
ResolvePrimary ==
    /\ rtOut.primary.outcome = "pending"
    /\ rtOut' = [rtOut EXCEPT !.primary = RouterResolve(rtIn)]
    /\ UNCHANGED <<rtIn, polIn, polOut, hitIn, hitOut>>
    /\ fnOthersUnchanged

\* shadow_compare.py:757-767  baseline_runner of a sampled check
BaselineRunner ==
    /\ rtOut.primary.outcome = "ok"
    /\ rtOut.baseline.outcome = "pending"
    /\ rtOut' = [rtOut EXCEPT !.baseline = ResolveCounterpart(rtOut.primary, rtIn)]
    /\ UNCHANGED <<rtIn, polIn, polOut, hitIn, hitOut>>
    /\ fnOthersUnchanged

CounterpartNext == ResolvePrimary \/ BaselineRunner

CounterpartSpec == CounterpartInit /\ [][CounterpartNext]_vars

\* C28 as the specification states it: the baseline a sampled check runs is
\* the implementation the policy names as secondary, and it is not the
\* implementation that produced the candidate.
C28_AsStated ==
    rtOut.baseline.outcome = "ok" =>
        /\ rtOut.baseline.impl_id = rtIn.secondary
        /\ rtOut.baseline.impl_id # rtOut.primary.impl_id

\* the half about the primary alone
C28_BaselineDiffers ==
    rtOut.baseline.outcome = "ok" =>
        rtOut.baseline.impl_id # rtOut.primary.impl_id

\* what the code does: the baseline is the other of legacy and novus unless
\* a CLI variable names the implementation or the fallback replaced it
C28_FlipUnlessCliOrFallback ==
    (rtOut.baseline.outcome = "ok" /\ ~Given(rtIn.cli.impl)
        /\ ~rtOut.baseline.fallback_used)
      => /\ rtOut.baseline.impl_id # rtOut.primary.impl_id
         /\ rtOut.baseline.impl_id \in {"legacy", "novus"}

\* CLI_PUZZLE_SOLVER_IMPL names novus: the candidate comes from novus and
\* the baseline is novus again
C28_Witness ==
    /\ rtIn.cli.impl = "novus" /\ rtIn.secondary = "novus"
    /\ rtIn.dirs = [d \in {"legacy", "novus"} |-> "package"]
    /\ rtOut.primary.outcome = "ok" /\ rtOut.primary.impl_id = "novus"
    /\ rtOut.baseline.outcome = "ok" /\ rtOut.baseline.impl_id = "novus"

\* no override at all: primary novus by the environment, secondary novus,
\* baseline legacy
C28_SecondaryIgnoredWitness ==
    /\ rtIn.cli.impl = Absent /\ rtIn.env.impl = "novus" /\ rtIn.secondary = "novus"
    /\ rtOut.primary.outcome = "ok" /\ rtOut.primary.impl_id = "novus"
    /\ rtOut.baseline.outcome = "ok" /\ rtOut.baseline.impl_id = "legacy"

(***************************************************************************)
(* The guardrail of run_with_shadow (checked under ShadowSpec)             *)
(***************************************************************************)
\* the dimensions in which the numbers m are strictly above their limits
Exceeded(m) ==
    (IF m.bt_depth > LimitBtDepth THEN {"bt_depth"} ELSE {})
        \cup (IF m.nodes > LimitNodes THEN {"nodes"} ELSE {})
        \cup (IF m.time_ms > LimitTimeMs THEN {"time_ms"} ELSE {})
AlphabeticalList(dims) ==
    (IF "bt_depth" \in dims THEN <<"bt_depth">> ELSE <<>>)
        \o (IF "nodes" \in dims THEN <<"nodes">> ELSE <<>>)
        \o (IF "time_ms" \in dims THEN <<"time_ms">> ELSE <<>>)
SampledAndCompared == spc = "returned" /\ res.sampled
ReportedByBaseline == task.baseline.run.payload

\* C29 as the specification states it: the guardrail fires exactly when a
\* number the baseline reports itself is strictly above its limit, and
\* limit_hit lists those dimensions in alphabetical order.
C29_AsStated ==
    SampledAndCompared =>
        /\ res.verdict_status = "budget_exhausted"
              <=> Exceeded(ReportedByBaseline) # {}
        /\ res.verdict_status = "budget_exhausted"
              => res.limit_hit = AlphabeticalList(Exceeded(ReportedByBaseline))

\* what the code does: the same test on the collected numbers, whose time_ms
\* is the measured duration when the baseline reports none or zero
C29_GuardrailOnCollectedMetrics ==
    SampledAndCompared =>
        LET collected ==
                [ReportedByBaseline EXCEPT
                    !.time_ms = IF @ = 0 THEN task.measuredMs ELSE @]
        IN /\ res.verdict_status = "budget_exhausted" <=> Exceeded(collected) # {}
           /\ res.verdict_status = "budget_exhausted"
                 => /\ res.limit_hit = AlphabeticalList(Exceeded(collected))
                    /\ res.code = "C4" /\ res.severity = "MAJOR"

\* a baseline that reports no number above a limit and no time at all, a
\* measured duration above 2000 ms, and the guardrail fired on time_ms
C29_Witness ==
    /\ SampledAndCompared
    /\ ReportedByBaseline.nodes = 0 /\ ReportedByBaseline.bt_depth = 0
    /\ ReportedByBaseline.time_ms = 0
    /\ task.measuredMs = LimitTimeMs + 1
    /\ res.verdict_status = "budget_exhausted"
    /\ res.limit_hit = <<"time_ms">>

\* every number exactly at its limit: the guardrail does not fire
C29_AtLimitWitness ==
    /\ SampledAndCompared
    /\ ReportedByBaseline.nodes = LimitNodes
    /\ ReportedByBaseline.bt_depth = LimitBtDepth
    /\ ReportedByBaseline.time_ms = LimitTimeMs
    /\ res.verdict_status # "budget_exhausted"

\* all three above their limits
C29_AllThreeWitness ==
    /\ SampledAndCompared
    /\ res.limit_hit = <<"bt_depth", "nodes", "time_ms">>

(***************************************************************************)
(* Validation before storage in run_pipeline (checked under Spec)          *)
(***************************************************************************)
StoreSteps ==
    <<[step |-> "store:Spec", id |-> "spec_id"],
      [step |-> "store:CompleteGrid", id |-> "complete_id"],
      [step |-> "store:Verdict", id |-> "verdict_id"],
      [step |-> "store:ExportBundle", id |-> "bundle_id"]>>
StepsOf(r) == {hist[r][i] : i \in 1..Len(hist[r])}

\* the invocation ended because assert_valid refused the artifact of a stage
ValidationRaised(r) ==
    /\ pc[r] = "failed" /\ err[r] = "ManagedValidationError"
    /\ "crossref" \notin StepsOf(r)

\* an invocation whose validation raised has stored an unbroken run of the
\* first stages and nothing of the refused stage or a later one, and has not
\* reached the printer
C30_NothingFromRefusedStageOn ==
    \A r \in Runs :
        ValidationRaised(r) =>
            /\ \E k \in 0..(Len(StoreSteps) - 1) :
                  \A i \in 1..Len(StoreSteps) :
                      IF i <= k
                      THEN /\ StoreSteps[i].step \in StepsOf(r)
                           /\ art[r][StoreSteps[i].id] # NoId
                      ELSE /\ StoreSteps[i].step \notin StepsOf(r)
                           /\ art[r][StoreSteps[i].id] = NoId
            /\ "printer" \notin StepsOf(r)
            /\ ~art[r].pdf

\* a step that adds an artifact to the store is a step of an invocation that
\* goes on, and assert_valid accepts the artifact under that invocation's
\* profile against the store as it was; the step in which validation raises
\* leaves the store as it was; an invocation that raised does nothing more
C30_StoreStep ==
    /\ \A a \in store' \ store :
          \E r \in Runs :
              /\ pc[r] \notin {"failed", "done"} /\ pc'[r] \notin {"failed", pc[r]}
              /\ AssertValid(a, a.type, inp[r].profile, store)
              /\ a.artifact_id \in {art'[r][StoreSteps[i].id] : i \in 1..Len(StoreSteps)}
    /\ \A r \in Runs :
          /\ (pc[r] # "failed" /\ pc'[r] = "failed"
                /\ err'[r] = "ManagedValidationError" /\ pc[r] # "crossref")
               => store' = store /\ art' = art /\ hist' = hist
          /\ pc[r] = "failed"
               => pc'[r] = "failed" /\ art'[r] = art[r] /\ hist'[r] = hist[r]

====
